---- MODULE Spec2Model ----
(***************************************************************************)
(* PymeGo back end: the product and transaction controllers over the       *)
(* Product and Transaction collections.                                    *)
(*                                                                         *)
(* Spec      requests run one at a time; one action per route handler.     *)
(* LowSpec   the product catalogue alone, with the low-stock listing.      *)
(* ConcSpec  requests interleave at their awaits (each database call is    *)
(*           one step).                                                    *)
(*                                                                         *)
(* Request bodies are plain JSON field maps.  Numbers are integers.        *)
(***************************************************************************)
EXTENDS Integers, Sequences, FiniteSets, TLC

\* ------------------------------------------------------------- bounds
MaxProducts == 2
MaxTransactions == 1
MaxStock == 2
MaxQuantity == 1
MaxItems == 2
MaxBusiness == 2
MaxSlots == 2
MaxDeficit == 1
MaxSales == 2

\* ---------------------------------------------------- program constants
DefaultLowStockThreshold == 10
MinStockQuantity == 0
MinLowStockThreshold == 0
MinQuantity == 1
MinPrice == 0
StatusOk == 200
StatusCreated == 201
StatusBadRequest == 400
StatusNotFound == 404
StatusServerError == 500

INCOME == "income"
EXPENSE == "expense"
WITHDRAWAL == "withdrawal"
TransactionType == {INCOME, EXPENSE, WITHDRAWAL}

Businesses == 1..MaxBusiness
ProductIds == 1..MaxProducts
TransactionIds == 1..MaxTransactions
Slots == 1..MaxSlots

VARIABLES
  products,        \* Product collection: _id -> document
  transactions,    \* Transaction collection: _id -> document
  nextProductId,   \* ids are fresh: never handed out twice
  nextTransactionId,
  last,            \* the request completed last, with its response
  reqs,            \* the request each connection has in flight
  users,           \* User collection, in insertion order: _id is the index
  businesses       \* Business collection, in insertion order

vars == <<products, transactions, nextProductId, nextTransactionId, last, reqs,
          users, businesses>>

\* --------------------------------------------------------- collections
Has(body, f) == f \in DOMAIN body

Insert(coll, id, doc) ==
  [x \in DOMAIN coll \cup {id} |-> IF x = id THEN doc ELSE coll[x]]

Remove(coll, id) == [x \in DOMAIN coll \ {id} |-> coll[x]]

FoundMutant(coll, id, businessId) == id \in DOMAIN coll

\* Model.findOne({ _id: id, businessId }): whether such a document is stored
Found(coll, id, businessId) ==
  id \in DOMAIN coll /\ coll[id].businessId = businessId

\* ------------------------------------------------------ schema validators
\* productSchema.stockQuantity: min 0
StockQuantityValid(v) == v >= MinStockQuantity

\* productSchema.lowStockThreshold: min 0
LowStockThresholdValid(v) == v >= MinLowStockThreshold

\* transactionProductSchema.quantity: min 1
QuantityValid(q) == q >= MinQuantity

RECURSIVE SumQuantityTimesPrice(_)
\* transactionSchema.pre('save'): products.reduce(sum + quantity * unitPrice)
SumQuantityTimesPrice(items) ==
  IF items = <<>> THEN 0
  ELSE Head(items).quantity * Head(items).unitPrice
         + SumQuantityTimesPrice(Tail(items))

\* Math.abs(amount - calculatedTotal) > 0.01, on integers
AmountMismatch(amount, items) ==
  /\ Len(items) > 0
  /\ amount # SumQuantityTimesPrice(items)

\* ------------------------------------------------------- the response
NoResponse ==
  [op |-> "none", businessId |-> 0, status |-> 0, message |-> "",
   id |-> 0, type |-> "", items |-> <<>>, operation |-> "", quantity |-> 0,
   data |-> <<>>, missing |-> FALSE, earlier |-> 0, before |-> <<>>]

Response(op, b, status, message) ==
  [NoResponse EXCEPT !.op = op, !.businessId = b, !.status = status,
                     !.message = message]

\* product.save() of a loaded document whose stockQuantity was assigned v:
\* validation first (ValidationError), then $set of the modified path
SaveStockValid(v) == StockQuantityValid(v)

\* ((salePrice - costPrice) / salePrice) * 100, as a fraction in lowest terms
MarginOf(salePrice, costPrice) ==
  LET n == (salePrice - costPrice) * 100
      g == IF n >= 0 THEN n ELSE 0 - n
      RECURSIVE Gcd(_, _)
      Gcd(a, b) == IF b = 0 THEN a ELSE Gcd(b, a % b)
  IN [num |-> n \div Gcd(g, salePrice), den |-> salePrice \div Gcd(g, salePrice)]

\* a number that is not 0 (and not undefined) is truthy
Truthy(doc, f) == f \in DOMAIN doc /\ doc[f] # 0

\* productSchema.pre('save'): the margin is computed when salePrice and
\* costPrice are both truthy, and left as it is otherwise
PreSave(doc) ==
  IF Truthy(doc, "salePrice") /\ Truthy(doc, "costPrice")
  THEN [doc EXCEPT !.margin = MarginOf(doc.salePrice, doc.costPrice)]
  ELSE doc

SaveStock(prods, id, v) ==
  [prods EXCEPT ![id] = PreSave([@ EXCEPT !.stockQuantity = v])]


\* ------------------------------------------------------ productController
\* productSchema.margin: default 0
DefaultMargin == [num |-> 0, den |-> 1]

\* the paths of a product that hold its prices; a body that names none stands
\* for one whose prices are of no interest (and valid)
PricePaths == {"costPrice", "salePrice"}

\* Product.create({ ...productData, businessId }): schema defaults applied
ProductDoc(b, body) ==
  [f \in {"businessId", "stockQuantity", "lowStockThreshold", "isActive"}
            \cup (DOMAIN body \cap PricePaths)
            \cup (IF DOMAIN body \cap PricePaths = {} THEN {} ELSE {"margin"}) |->
     CASE f = "businessId" -> b
       [] f = "margin" -> IF Has(body, "margin") THEN body.margin ELSE DefaultMargin
       [] f = "lowStockThreshold" ->
            IF Has(body, "lowStockThreshold") THEN body.lowStockThreshold
            ELSE DefaultLowStockThreshold
       [] f = "isActive" -> IF Has(body, "isActive") THEN body.isActive ELSE TRUE
       [] OTHER -> body[f]]

\* productSchema.costPrice: min 0
CostPriceValid(v) == v >= MinPrice

\* productSchema.salePrice: min 0, and the validator value >= this.costPrice;
\* a comparison with the undefined costPrice of a this that has none is false
SalePriceValid(value, this) ==
  /\ value >= MinPrice
  /\ Has(this, "costPrice") /\ value >= this.costPrice

\* this of a validator that findOneAndUpdate runs: the query, not a product
QueryThis == [op |-> "findOneAndUpdate"]

\* router.post('/products'): body('stockQuantity').isInt({ min: 0 })
CreateProductRouteValid(body) ==
  /\ body.stockQuantity >= 0
  /\ \A f \in DOMAIN body \cap PricePaths : body[f] >= 0

ProductValid(doc) ==
  /\ StockQuantityValid(doc.stockQuantity)
  /\ LowStockThresholdValid(doc.lowStockThreshold)
  /\ Has(doc, "costPrice") => CostPriceValid(doc.costPrice)
  /\ Has(doc, "salePrice") => SalePriceValid(doc.salePrice, doc)

CreateProduct(b, body) ==
  /\ UNCHANGED <<transactions, nextTransactionId, reqs, users, businesses>>
  /\ IF ~CreateProductRouteValid(body)
     THEN /\ last' = Response("createProduct", b, StatusBadRequest, "Validation failed")
          /\ UNCHANGED <<products, nextProductId>>
     ELSE IF ~ProductValid(ProductDoc(b, body))
     THEN /\ last' = Response("createProduct", b, StatusBadRequest, "Validation Error")
          /\ UNCHANGED <<products, nextProductId>>
     ELSE /\ nextProductId <= MaxProducts
          /\ products' = Insert(products, nextProductId, PreSave(ProductDoc(b, body)))
          /\ nextProductId' = nextProductId + 1
          /\ last' = [Response("createProduct", b, StatusCreated, "Product created successfully")
                        EXCEPT !.id = nextProductId]

\* update validators (runValidators: true) on the paths the body sets; they
\* run on $set, not on $inc
ProductUpdateValid(body) ==
  /\ Has(body, "stockQuantity") => StockQuantityValid(body.stockQuantity)
  /\ Has(body, "lowStockThreshold") => LowStockThresholdValid(body.lowStockThreshold)
  /\ Has(body, "costPrice") => CostPriceValid(body.costPrice)
  /\ Has(body, "salePrice") => SalePriceValid(body.salePrice, QueryThis)

\* the update document is req.body: its plain paths are $set, the paths under
\* its $inc are incremented
ApplyProductUpdate(doc, body) ==
  [f \in DOMAIN doc |->
     IF Has(body, f) THEN body[f]
     ELSE IF Has(body, "$inc") /\ Has(body["$inc"], f) THEN doc[f] + body["$inc"][f]
     ELSE doc[f]]

UpdateProduct(b, id, body) ==
  /\ UNCHANGED <<transactions, nextProductId, nextTransactionId, reqs, users, businesses>>
  /\ IF ~ProductUpdateValid(body)
     THEN /\ last' = [Response("updateProduct", b, StatusBadRequest, "Validation Error")
                        EXCEPT !.id = id]
          /\ UNCHANGED products
     ELSE IF ~Found(products, id, b)
     THEN /\ last' = [Response("updateProduct", b, StatusNotFound, "Product not found")
                        EXCEPT !.id = id]
          /\ UNCHANGED products
     ELSE /\ ApplyProductUpdate(products[id], body).stockQuantity >= 0 - MaxDeficit
          /\ products' = [products EXCEPT ![id] = ApplyProductUpdate(@, body)]
          /\ last' = [Response("updateProduct", b, StatusOk, "Product updated successfully")
                        EXCEPT !.id = id]

DeleteProduct(b, id) ==
  /\ UNCHANGED <<transactions, nextProductId, nextTransactionId, reqs, users, businesses>>
  /\ IF ~Found(products, id, b)
     THEN /\ last' = [Response("deleteProduct", b, StatusNotFound, "Product not found")
                        EXCEPT !.id = id]
          /\ UNCHANGED products
     ELSE /\ products' = Remove(products, id)
          /\ last' = [Response("deleteProduct", b, StatusOk, "Product deleted successfully")
                        EXCEPT !.id = id]

\* find({ businessId, isActive: true, $expr: { $lte: [stockQuantity, lowStockThreshold] } })
LowStockFilterMutant(prods, b) ==
  {id \in DOMAIN prods :
     /\ prods[id].businessId = b
     /\ prods[id].stockQuantity <= prods[id].lowStockThreshold}

LowStockFilter(prods, b) ==
  {id \in DOMAIN prods :
     /\ prods[id].businessId = b
     /\ prods[id].isActive
     /\ prods[id].stockQuantity <= prods[id].lowStockThreshold}

RECURSIVE SortByStock(_, _)
\* .sort({ stockQuantity: 1 }); equal keys come in _id order
SortByStock(prods, ids) ==
  IF ids = {} THEN <<>>
  ELSE LET first == CHOOSE i \in ids : \A j \in ids :
                       \/ prods[i].stockQuantity < prods[j].stockQuantity
                       \/ /\ prods[i].stockQuantity = prods[j].stockQuantity
                          /\ i <= j
       IN <<first>> \o SortByStock(prods, ids \ {first})

GetLowStockProducts(b) ==
  /\ UNCHANGED <<products, transactions, nextProductId, nextTransactionId, reqs, users, businesses>>
  /\ last' = [Response("getLowStockProducts", b, StatusOk, "")
                EXCEPT !.data = SortByStock(products, LowStockFilter(products, b))]

\* router.patch('/products/:id/stock'): quantity isInt({ min: 0 }),
\* operation optional, isIn(['add', 'subtract'])
UpdateStockRouteValid(body) ==
  /\ body.quantity >= 0
  /\ Has(body, "operation") => body.operation \in {"add", "subtract"}

Max(a, b) == IF a >= b THEN a ELSE b

NewStockMutant(stock, body) ==
  IF Has(body, "operation") /\ body.operation = "add"
  THEN stock + body.quantity
  ELSE IF Has(body, "operation") /\ body.operation = "subtract"
  THEN Max(0, body.quantity - stock)
  ELSE body.quantity

\* updateStock: the add / subtract / else branches
NewStock(stock, body) ==
  IF Has(body, "operation") /\ body.operation = "add"
  THEN stock + body.quantity
  ELSE IF Has(body, "operation") /\ body.operation = "subtract"
  THEN Max(0, stock - body.quantity)
  ELSE body.quantity

OperationOf(body) == IF Has(body, "operation") THEN body.operation ELSE "absent"

UpdateStockResponse(b, id, body, status, message) ==
  [Response("updateStock", b, status, message)
     EXCEPT !.id = id, !.operation = OperationOf(body), !.quantity = body.quantity]

UpdateStock(b, id, body) ==
  /\ UNCHANGED <<transactions, nextProductId, nextTransactionId, reqs, users, businesses>>
  /\ IF ~UpdateStockRouteValid(body)
     THEN /\ last' = UpdateStockResponse(b, id, body, StatusBadRequest, "Validation failed")
          /\ UNCHANGED products
     ELSE IF ~Found(products, id, b)
     THEN /\ last' = UpdateStockResponse(b, id, body, StatusNotFound, "Product not found")
          /\ UNCHANGED products
     ELSE LET v == NewStock(products[id].stockQuantity, body) IN
          IF ~SaveStockValid(v)
          THEN /\ last' = UpdateStockResponse(b, id, body, StatusBadRequest, "Validation Error")
               /\ UNCHANGED products
          ELSE /\ v <= MaxStock
               /\ products' = SaveStock(products, id, v)
               /\ last' = UpdateStockResponse(b, id, body, StatusOk, "Stock updated successfully")


\* --------------------------------------------------- transactionController
\* createTransaction, line 54: product.stockQuantity < productData.quantity
InsufficientStock(stock, quantity) == stock < quantity

\* createTransaction, line 61: product.stockQuantity -= productData.quantity
DecrementMutant(stock, quantity) == stock - quantity - quantity

Decrement(stock, quantity) == stock - quantity

\* deleteTransaction, line 227: product.stockQuantity += productData.quantity
RestoreMutant(stock, quantity) == stock

Restore(stock, quantity) == stock + quantity

\* createTransaction, line 53: the stock steps run for income only
StockStepsApplyMutant(type) == TRUE

StockStepsApply(type) == type = INCOME

\* a loop that, when it stops on a line item, gives back the stock it found
OutcomeMutant(prods, status, message, id, at) ==
  [products |-> IF status # 0 THEN products ELSE prods,
   status |-> status, message |-> message, id |-> id, at |-> at]

Outcome(prods, status, message, id, at) ==
  [products |-> prods, status |-> status, message |-> message, id |-> id, at |-> at]

RECURSIVE ProcessItems(_, _, _, _, _)
\* createTransaction, lines 38-65: the loop over transactionData.products,
\* from line item k on.  status 0: the loop ran to its end; otherwise it
\* stopped at line item `at`, on product `id`
ProcessItems(prods, b, type, items, k) ==
  IF k > Len(items) THEN Outcome(prods, 0, "", 0, 0)
  ELSE LET item == items[k]
           id == item.productId
       IN IF ~Found(prods, id, b)
          THEN Outcome(prods, StatusNotFound, "Product not found", id, k)
          ELSE IF StockStepsApply(type)
          THEN IF InsufficientStock(prods[id].stockQuantity, item.quantity)
               THEN Outcome(prods, StatusBadRequest, "Insufficient stock", id, k)
               ELSE LET v == Decrement(prods[id].stockQuantity, item.quantity)
                    IN IF ~SaveStockValid(v)
                       THEN Outcome(prods, StatusBadRequest, "Validation Error", id, k)
                       ELSE ProcessItems(SaveStock(prods, id, v), b, type, items, k + 1)
          ELSE ProcessItems(prods, b, type, items, k + 1)

ItemsValid(items) == \A i \in 1..Len(items) : QuantityValid(items[i].quantity)

\* the paths of transactionProductSchema: the schema is strict, a line item is
\* stored without the other fields it was sent with
ItemPaths == {"productId", "variantName", "quantity", "unitPrice", "totalPrice"}

StoredItem(item) == [f \in DOMAIN item \cap ItemPaths |-> item[f]]

\* Transaction.create({ ...transactionData, businessId }); a body that names no
\* date and no category stands for one whose date and category are of no interest
TransactionDoc(b, body) ==
  [f \in {"businessId", "type", "amount", "products"}
            \cup (DOMAIN body \cap {"date", "category"}) |->
     CASE f = "businessId" -> b
       [] f = "products" -> [k \in 1..Len(body.products) |-> StoredItem(body.products[k])]
       [] OTHER -> body[f]]

TransactionResponse(op, b, id, status, message, type, items) ==
  [Response(op, b, status, message) EXCEPT !.id = id, !.type = type, !.items = items]

\* what the request log keeps of a createTransaction request: its type, whether a
\* line item names a product the business does not have, and how much of the
\* product the loop stopped on the line items before that one had asked for
RECURSIVE Taken(_, _, _)
Taken(items, k, id) ==
  IF k <= 1 THEN 0
  ELSE Taken(items, k - 1, id)
         + (IF items[k - 1].productId = id THEN items[k - 1].quantity ELSE 0)

ReferencesMissing(prods, b, items) ==
  \E i \in 1..Len(items) :
     \/ items[i].productId \notin DOMAIN prods
     \/ prods[items[i].productId].businessId # b

\* the stock levels a request found
StockLevels(prods) == [p \in DOMAIN prods |-> prods[p].stockQuantity]

CreateTransaction(b, body) ==
  LET out == ProcessItems(products, b, body.type, body.products, 1)
      Reply(status, message, id) ==
        [TransactionResponse("createTransaction", b, id, status, message, body.type, <<>>)
           EXCEPT !.missing = ReferencesMissing(products, b, body.products),
                  !.earlier = Taken(body.products, out.at, out.id)]
  IN
  /\ UNCHANGED <<nextProductId, reqs, users, businesses>>
  /\ products' = out.products
  /\ IF out.status # 0
     THEN /\ last' = Reply(out.status, out.message, out.id)
          /\ UNCHANGED <<transactions, nextTransactionId>>
     ELSE IF ~ItemsValid(body.products)
     THEN /\ last' = Reply(StatusBadRequest, "Validation Error", 0)
          /\ UNCHANGED <<transactions, nextTransactionId>>
     ELSE IF AmountMismatch(body.amount, body.products)
     THEN /\ last' = Reply(StatusServerError, "Amount must match sum of products", 0)
          /\ UNCHANGED <<transactions, nextTransactionId>>
     ELSE /\ nextTransactionId <= MaxTransactions
          /\ transactions' = Insert(transactions, nextTransactionId, TransactionDoc(b, body))
          /\ nextTransactionId' = nextTransactionId + 1
          /\ last' = [Reply(StatusCreated, "Transaction created successfully",
                            nextTransactionId)
                        EXCEPT !.before = StockLevels(products)]

GetTransactionMutant(b, id) ==
  /\ UNCHANGED <<products, transactions, nextProductId, nextTransactionId, reqs, users, businesses>>
  /\ IF id \notin DOMAIN transactions
     THEN last' = TransactionResponse("getTransaction", b, id, StatusNotFound,
                                      "Transaction not found", "", <<>>)
     ELSE last' = TransactionResponse("getTransaction", b, id, StatusOk, "", "", <<>>)

GetTransaction(b, id) ==
  /\ UNCHANGED <<products, transactions, nextProductId, nextTransactionId, reqs, users, businesses>>
  /\ IF ~Found(transactions, id, b)
     THEN last' = TransactionResponse("getTransaction", b, id, StatusNotFound,
                                      "Transaction not found", "", <<>>)
     ELSE last' = TransactionResponse("getTransaction", b, id, StatusOk, "", "", <<>>)

\* update validators (runValidators: true) on the paths the body sets;
\* the pre('save') amount check is no part of findOneAndUpdate
TransactionUpdateValid(body) ==
  /\ Has(body, "amount") => body.amount >= 0
  /\ Has(body, "type") => body.type \in TransactionType
  /\ Has(body, "products") => ItemsValid(body.products)

ApplyTransactionUpdate(doc, body) ==
  [f \in DOMAIN doc |-> IF Has(body, f) THEN body[f] ELSE doc[f]]

UpdateTransaction(b, id, body) ==
  /\ UNCHANGED <<products, nextProductId, nextTransactionId, reqs, users, businesses>>
  /\ IF ~TransactionUpdateValid(body)
     THEN /\ last' = TransactionResponse("updateTransaction", b, id, StatusBadRequest,
                                         "Validation Error", "", <<>>)
          /\ UNCHANGED transactions
     ELSE IF ~Found(transactions, id, b)
     THEN /\ last' = TransactionResponse("updateTransaction", b, id, StatusNotFound,
                                         "Transaction not found", "", <<>>)
          /\ UNCHANGED transactions
     ELSE /\ transactions' = [transactions EXCEPT ![id] = ApplyTransactionUpdate(@, body)]
          /\ last' = TransactionResponse("updateTransaction", b, id, StatusOk,
                                         "Transaction updated successfully", "", <<>>)

RECURSIVE RestoreItemsMutant(_, _, _)
RestoreItemsMutant(prods, b, items) ==
  IF items = <<>> THEN Outcome(prods, 0, "", 0, 0)
  ELSE LET item == Head(items)
           id == item.productId
       IN IF ~Found(prods, id, b)
          THEN Outcome(prods, StatusNotFound, "Product not found", id, 0)
          ELSE RestoreItemsMutant(
                 SaveStock(prods, id, Restore(prods[id].stockQuantity, item.quantity)),
                 b, Tail(items))

RECURSIVE RestoreItems(_, _, _)
\* deleteTransaction, lines 220-230: a product that is not found is passed over.
\* status 0: the loop ran to its end
RestoreItems(prods, b, items) ==
  IF items = <<>> THEN Outcome(prods, 0, "", 0, 0)
  ELSE LET item == Head(items)
           id == item.productId
       IN IF ~Found(prods, id, b)
          THEN RestoreItems(prods, b, Tail(items))
          ELSE LET v == Restore(prods[id].stockQuantity, item.quantity)
               IN IF ~SaveStockValid(v)
                  THEN Outcome(prods, StatusBadRequest, "Validation Error", id, 0)
                  ELSE RestoreItems(SaveStock(prods, id, v), b, Tail(items))

\* the request log: the stock levels found by the request that created transaction
\* id, when that request is the one completed just before this one
CreatedJustBefore(id) ==
  IF last.op = "createTransaction" /\ last.status = StatusCreated /\ last.id = id
  THEN last.before ELSE <<>>

DeleteTransaction(b, id) ==
  /\ UNCHANGED <<nextProductId, nextTransactionId, reqs, users, businesses>>
  /\ IF ~Found(transactions, id, b)
     THEN /\ last' = TransactionResponse("deleteTransaction", b, id, StatusNotFound,
                                         "Transaction not found", "", <<>>)
          /\ UNCHANGED <<products, transactions>>
     ELSE LET doc == transactions[id]
              out == IF doc.type = INCOME
                     THEN RestoreItems(products, b, doc.products)
                     ELSE Outcome(products, 0, "", 0, 0)
          IN /\ transactions' = Remove(transactions, id)
             /\ products' = out.products
             /\ last' = IF out.status # 0
                        THEN TransactionResponse("deleteTransaction", b, id, out.status,
                                                 out.message, doc.type, doc.products)
                        ELSE [TransactionResponse("deleteTransaction", b, id, StatusOk,
                                                  "Transaction deleted successfully",
                                                  doc.type, doc.products)
                                EXCEPT !.before = CreatedJustBefore(id)]

\* ------------------------------------------------------------ requests
MaxUnitPrice == 1

Items == [productId : ProductIds, quantity : 1..MaxQuantity, unitPrice : 1..MaxUnitPrice]

RECURSIVE ItemLists(_)
ItemLists(n) ==
  IF n = 0 THEN {<<>>}
  ELSE ItemLists(n - 1) \cup
       {<<i>> \o l : i \in Items, l \in {m \in ItemLists(n - 1) : Len(m) = n - 1}}

\* the amount sent with line items: their total, or one more
Amounts(items) ==
  {SumQuantityTimesPrice(items), SumQuantityTimesPrice(items) + 1}

TransactionBodies ==
  {[type |-> t, amount |-> a, products |-> l] :
     t \in TransactionType, l \in ItemLists(MaxItems), a \in 0..(MaxItems * MaxQuantity * MaxUnitPrice + 1)}

CreateTransactionBodies == {body \in TransactionBodies : body.amount \in Amounts(body.products)}

\* an update of the type, of the line items, or of the amount (to a negative one)
TransactionUpdates ==
  {[type |-> t] : t \in TransactionType}
    \cup {[products |-> l] : l \in ItemLists(MaxItems)}
    \cup {[amount |-> 0 - 1]}

StockBodies ==
  {[quantity |-> q] : q \in 0..MaxStock}
    \cup {[quantity |-> q, operation |-> o] :
            q \in 0..MaxStock, o \in {"add", "subtract", "set"}}


\* Spec: products are created with the schema defaults
DefaultProductBodies == {[stockQuantity |-> s] : s \in 0..MaxStock}

StockUpdates == {[stockQuantity |-> s] : s \in (0 - 1)..MaxStock}

\* a connection with no request in flight
Idle ==
  [pc |-> "idle", op |-> "", businessId |-> 0, id |-> 0, v |-> 0, body |-> <<>>,
   items |-> <<>>, k |-> 0]

\* the businesses that keep products: in Spec the other ones send requests and
\* keep transactions, in ConcSpec they send none
Sellers == {b \in Businesses : b = 1}

\* ------------------------------------------------------------ Spec
\* the transactions of one or more businesses and the stock they move, one
\* request at a time; the stock of a product is set when it is created
Init ==
  /\ products = << >>
  /\ transactions = << >>
  /\ nextProductId = 1
  /\ nextTransactionId = 1
  /\ last = NoResponse
  /\ reqs = [s \in Slots |-> Idle]
  /\ users = << >>
  /\ businesses = << >>

Next ==
  \/ \E b \in Sellers, body \in DefaultProductBodies : CreateProduct(b, body)
  \/ \E b \in Businesses, id \in ProductIds : DeleteProduct(b, id)
  \/ \E b \in Businesses, body \in CreateTransactionBodies : CreateTransaction(b, body)
  \/ \E b \in Businesses, id \in TransactionIds : GetTransaction(b, id)
  \/ \E b \in Businesses, id \in TransactionIds, body \in TransactionUpdates :
       UpdateTransaction(b, id, body)
  \/ \E b \in Businesses, id \in TransactionIds : DeleteTransaction(b, id)

Spec == Init /\ [][Next]_vars


\* ------------------------------------------------------------ LowSpec
\* the product catalogue alone: every field of the bodies, every stock operation
ProductBodies ==
  {[stockQuantity |-> q] : q \in 0..MaxStock}
    \cup {[stockQuantity |-> q, lowStockThreshold |-> t] : q \in 0..MaxStock, t \in 0..1}
    \cup {[stockQuantity |-> q, isActive |-> FALSE] : q \in 0..MaxStock}

ProductUpdates ==
  {[stockQuantity |-> q] : q \in (0 - 1)..MaxStock}
    \cup {[lowStockThreshold |-> t] : t \in (0 - 1)..1}
    \cup {[isActive |-> a] : a \in BOOLEAN}

LowNext ==
  \/ \E b \in Businesses, body \in ProductBodies : CreateProduct(b, body)
  \/ \E b \in Businesses, id \in ProductIds, body \in ProductUpdates :
       UpdateProduct(b, id, body)
  \/ \E b \in Businesses, id \in ProductIds : DeleteProduct(b, id)
  \/ \E b \in Businesses, id \in ProductIds, body \in StockBodies : UpdateStock(b, id, body)
  \/ \E b \in Businesses : GetLowStockProducts(b)

LowSpec == Init /\ [][LowNext]_vars

\* ------------------------------------------------------------ ConcSpec
\* A handler runs up to its next await; the database call it awaits is one
\* step.  createProduct, updateProduct and deleteProduct make one call each.
\* pc: "find" before Product.findOne for line item k (or for the product of
\* updateStock), "save" before product.save() of value v, "create" before
\* Transaction.create.

\* the stock requests of ConcSpec
ConcStockBodies ==
  {[quantity |-> 0]}
    \cup {[quantity |-> 1, operation |-> o] : o \in {"add", "subtract"}}

\* the transactions of ConcSpec: sales, the amount matching the line items, the
\* line items naming distinct products in the order of their ids
ConcTransactionBodies ==
  {body \in TransactionBodies :
     /\ body.type = INCOME
     /\ body.amount = SumQuantityTimesPrice(body.products)
     /\ \A i, j \in 1..Len(body.products) :
          i < j => body.products[i].productId < body.products[j].productId}

\* an update document that is an operator: { $inc: { stockQuantity: -1 } }
StockIncrements == {[o \in {"$inc"} |-> [stockQuantity |-> 0 - 1]]}

\* the product updates of ConcSpec: to a negative stock, to the largest, by -1
ConcStockUpdates ==
  {body \in StockUpdates : body.stockQuantity \in {0 - 1, MaxStock}} \cup StockIncrements

\* res.status(status).json(...) or next(error): the request is over.  The request
\* log keeps the requests that ran without interleaving.
Done(s, status) ==
  /\ reqs' = [reqs EXCEPT ![s] = Idle]
  /\ UNCHANGED last

ReceiveUpdateStock(s, b, id, body) ==
  /\ reqs[s].pc = "idle"
  /\ UNCHANGED <<products, transactions, nextProductId, nextTransactionId, users, businesses>>
  /\ IF ~UpdateStockRouteValid(body)
     THEN Done(s, StatusBadRequest)
     ELSE /\ reqs' = [reqs EXCEPT ![s] =
                        [Idle EXCEPT !.pc = "find", !.op = "updateStock",
                                     !.businessId = b, !.id = id, !.body = body]]
          /\ UNCHANGED last

ReceiveCreateTransaction(s, b, body) ==
  /\ reqs[s].pc = "idle"
  /\ UNCHANGED <<products, transactions, nextProductId, nextTransactionId, last, users, businesses>>
  /\ reqs' = [reqs EXCEPT ![s] =
                [Idle EXCEPT !.pc = IF Len(body.products) > 0 THEN "find" ELSE "create",
                             !.op = "createTransaction", !.businessId = b,
                             !.body = body, !.items = body.products, !.k = 1]]

\* deleteTransaction, line 209: findOneAndDelete, then the loop over the
\* deleted document's line items; the request keeps the id of its transaction
\* (req.params.id) in body, its id becomes that of the product it is saving
ReceiveDeleteTransaction(s, b, id) ==
  /\ reqs[s].pc = "idle"
  /\ UNCHANGED <<products, nextProductId, nextTransactionId, users, businesses>>
  /\ IF ~Found(transactions, id, b)
     THEN /\ Done(s, StatusNotFound)
          /\ UNCHANGED transactions
     ELSE LET doc == transactions[id] IN
          /\ transactions' = Remove(transactions, id)
          /\ IF doc.type = INCOME /\ Len(doc.products) > 0
             THEN /\ reqs' = [reqs EXCEPT ![s] =
                                [Idle EXCEPT !.pc = "find", !.op = "deleteTransaction",
                                             !.businessId = b, !.id = id,
                                             !.body = [id |-> id],
                                             !.items = doc.products, !.k = 1]]
                  /\ UNCHANGED last
             ELSE Done(s, StatusOk)

\* the request goes on to its next line item, or leaves the loop
NextItem(r) ==
  IF r.k < Len(r.items)
  THEN [r EXCEPT !.pc = "find", !.k = r.k + 1]
  ELSE [r EXCEPT !.pc = IF r.op = "createTransaction" THEN "create" ELSE "done",
                 !.k = r.k + 1]

\* the slot goes to r, or answers when r has left the loop of deleteTransaction
Continue(s, r) ==
  IF r.pc = "done"
  THEN Done(s, StatusOk)
  ELSE reqs' = [reqs EXCEPT ![s] = r] /\ UNCHANGED last

\* await Product.findOne({ _id, businessId }), and the code up to the next await
FindProduct(s) ==
  LET r == reqs[s]
      id == IF r.op = "updateStock" THEN r.id ELSE r.items[r.k].productId
      \* updateStock reads req.body no more once newStock is computed
      ToSave(v) == [r EXCEPT !.pc = "save", !.id = id, !.v = v,
                             !.body = IF r.op = "updateStock" THEN <<>> ELSE @]
  IN
  /\ r.pc = "find"
  /\ UNCHANGED <<products, transactions, nextProductId, nextTransactionId, users, businesses>>
  /\ IF ~Found(products, id, r.businessId)
     THEN IF r.op = "deleteTransaction"
          THEN Continue(s, NextItem(r))
          ELSE Done(s, StatusNotFound)
     ELSE LET stock == products[id].stockQuantity IN
          IF r.op = "updateStock"
          THEN /\ NewStock(stock, r.body) <= MaxStock
               /\ Continue(s, ToSave(NewStock(stock, r.body)))
          ELSE IF r.op = "deleteTransaction"
          THEN Continue(s, ToSave(Restore(stock, r.items[r.k].quantity)))
          ELSE IF ~StockStepsApply(r.body.type)
          THEN Continue(s, NextItem(r))
          ELSE IF InsufficientStock(stock, r.items[r.k].quantity)
          THEN Done(s, StatusBadRequest)
          ELSE Continue(s, ToSave(Decrement(stock, r.items[r.k].quantity)))

\* await product.save(): the loaded document's stockQuantity, assigned v, is
\* validated and written over whatever the collection holds by now
SaveProduct(s) ==
  LET r == reqs[s] IN
  /\ r.pc = "save"
  /\ UNCHANGED <<transactions, nextProductId, nextTransactionId, users, businesses>>
  /\ IF ~SaveStockValid(r.v)
     THEN /\ Done(s, StatusBadRequest)
          /\ UNCHANGED products
     ELSE IF r.id \notin DOMAIN products
     THEN /\ Done(s, StatusServerError)
          /\ UNCHANGED products
     ELSE /\ products' = SaveStock(products, r.id, r.v)
          /\ IF r.op = "updateStock"
             THEN Done(s, StatusOk)
             ELSE Continue(s, NextItem(r))

\* await Transaction.create({ ...transactionData, businessId })
CreateRecordUpTo(s, max) ==
  LET r == reqs[s] IN
  /\ r.pc = "create"
  /\ UNCHANGED <<products, nextProductId, users, businesses>>
  /\ IF ~ItemsValid(r.items)
     THEN /\ Done(s, StatusBadRequest)
          /\ UNCHANGED <<transactions, nextTransactionId>>
     ELSE IF AmountMismatch(r.body.amount, r.items)
     THEN /\ Done(s, StatusServerError)
          /\ UNCHANGED <<transactions, nextTransactionId>>
     ELSE /\ nextTransactionId <= max
          /\ transactions' = Insert(transactions, nextTransactionId,
                                    TransactionDoc(r.businessId, r.body))
          /\ nextTransactionId' = nextTransactionId + 1
          /\ Done(s, StatusCreated)

CreateRecord(s) == CreateRecordUpTo(s, MaxTransactions)

ConcNext ==
  \/ \E b \in Sellers, body \in DefaultProductBodies : CreateProduct(b, body)
  \/ \E b \in Sellers, id \in ProductIds, body \in ConcStockUpdates :
       UpdateProduct(b, id, body)
  \/ \E s \in Slots, b \in Sellers, id \in ProductIds, body \in ConcStockBodies :
       ReceiveUpdateStock(s, b, id, body)
  \/ \E s \in Slots, b \in Sellers, body \in ConcTransactionBodies :
       ReceiveCreateTransaction(s, b, body)
  \/ \E s \in Slots, b \in Sellers, id \in TransactionIds :
       ReceiveDeleteTransaction(s, b, id)
  \/ \E s \in Slots : FindProduct(s)
  \/ \E s \in Slots : SaveProduct(s)
  \/ \E s \in Slots : CreateRecord(s)

ConcSpec == Init /\ [][ConcNext]_vars

\* ============================================================ claims
\* the quantity the line items ask of product id
TotalFor(items, id) == Taken(items, Len(items) + 1, id)

RECURSIVE SoldIn(_, _, _, _)
\* the quantity of product id in the line items of the income transactions
\* ts of business b
SoldIn(txns, ts, b, id) ==
  IF ts = {} THEN 0
  ELSE LET t == CHOOSE x \in ts : TRUE
       IN (IF txns[t].type = INCOME /\ txns[t].businessId = b
           THEN TotalFor(txns[t].products, id) ELSE 0)
          + SoldIn(txns, ts \ {t}, b, id)

Sold(txns, prods, id) == SoldIn(txns, DOMAIN txns, prods[id].businessId, id)

InsufficientReply(r) ==
  r.op = "createTransaction" /\ r.status = StatusBadRequest
    /\ r.message = "Insufficient stock"

\* C1 as stated: whenever createTransaction answers insufficient stock for a
\* product, that product's stockQuantity is what it was before the request and
\* no transaction record has been created.
C1_Original ==
  [][InsufficientReply(last') =>
       /\ products'[last'.id].stockQuantity = products[last'.id].stockQuantity
       /\ transactions' = transactions]_vars

\* C1 amended: whenever createTransaction answers insufficient stock for a
\* product, no transaction record has been created and that product's
\* stockQuantity is its value before the request less the quantities of the
\* request's earlier line items for the same product (so it is unchanged when the
\* failing line item is the first one for that product).
C1_Amended ==
  [][InsufficientReply(last') =>
       /\ last'.id \in DOMAIN products /\ last'.id \in DOMAIN products'
       /\ products'[last'.id].stockQuantity
            = products[last'.id].stockQuantity - last'.earlier
       /\ transactions' = transactions
       /\ nextTransactionId' = nextTransactionId]_vars

C1_Witness ==
  /\ InsufficientReply(last)
  /\ last.earlier > 0
  /\ last.id \in DOMAIN products

CreatedIncome(r) ==
  r.op = "createTransaction" /\ r.status = StatusCreated /\ r.type = INCOME

C3_StockReflectsSales ==
  [][last'.op \in {"createTransaction", "updateTransaction", "deleteTransaction"} =>
       \A p \in DOMAIN products \cap DOMAIN products' :
          products'[p].stockQuantity - products[p].stockQuantity
            = Sold(transactions, products, p) - Sold(transactions', products', p)]_vars

\* C5 as stated: a createTransaction with a line item whose product the caller's
\* business does not have is answered 404, and no transaction record is created.
C5_Original ==
  [][(last'.op = "createTransaction" /\ last'.missing) =>
       /\ last'.status = StatusNotFound
       /\ transactions' = transactions]_vars

\* C5 amended: a createTransaction with a line item whose product the caller's
\* business does not have creates no transaction record; it is answered 404,
\* unless it is an income request of which an earlier line item fails the stock
\* check, which is answered with the 400 insufficient-stock response.
C5_Amended ==
  [][(last'.op = "createTransaction" /\ last'.missing) =>
       /\ transactions' = transactions
       /\ nextTransactionId' = nextTransactionId
       /\ \/ last'.status = StatusNotFound
          \/ InsufficientReply(last') /\ last'.type = INCOME]_vars

C5_Witness ==
  /\ last.op = "createTransaction" /\ last.missing
  /\ last.status = StatusNotFound
  /\ last.id \in DOMAIN products
  /\ products[last.id].businessId # last.businessId

C7_DeleteRestores ==
  [][(/\ last'.op = "deleteTransaction"
      /\ last'.id \in DOMAIN transactions
      /\ transactions[last'.id].businessId = last'.businessId) =>
       LET doc == transactions[last'.id] IN
       /\ last'.status = StatusOk
       /\ transactions' = Remove(transactions, last'.id)
       /\ DOMAIN products' = DOMAIN products
       /\ \A p \in DOMAIN products :
            products'[p] =
              [products[p] EXCEPT !.stockQuantity =
                 @ + (IF doc.type = INCOME /\ products[p].businessId = doc.businessId
                      THEN TotalFor(doc.products, p) ELSE 0)]]_vars

C7_Witness ==
  /\ last.op = "deleteTransaction" /\ last.status = StatusOk /\ last.type = INCOME
  /\ Len(last.items) = 2
  /\ last.items[1].productId \notin DOMAIN products
  /\ last.items[2].productId \in DOMAIN products
  /\ products[last.items[2].productId].stockQuantity > 0

CrossBusiness(r, txns) ==
  /\ r.op \in {"getTransaction", "updateTransaction", "deleteTransaction"}
  /\ r.id \in DOMAIN txns
  /\ txns[r.id].businessId # r.businessId

NotFoundReply(r) ==
  r = TransactionResponse(r.op, r.businessId, r.id, StatusNotFound,
                          "Transaction not found", "", <<>>)

\* C8 as stated: a getTransaction, updateTransaction or deleteTransaction of
\* business A on a transaction of another business B is answered with the 404
\* of an id that does not exist, and changes no transaction and no stockQuantity.
C8_Original ==
  [][CrossBusiness(last', transactions) =>
       /\ NotFoundReply(last')
       /\ transactions' = transactions
       /\ products' = products]_vars

\* C8 amended: such a request changes no transaction and no stockQuantity and
\* is answered as it is for an id that does not exist: with the 404 not-found
\* response, or, for an updateTransaction whose body the update validators
\* reject (they run before the lookup), with the 400 validation error.
C8_Amended ==
  [][CrossBusiness(last', transactions) =>
       /\ transactions' = transactions
       /\ products' = products
       /\ \/ NotFoundReply(last')
          \/ last' = TransactionResponse("updateTransaction", last'.businessId, last'.id,
                                         StatusBadRequest, "Validation Error", "", <<>>)]_vars

C8_Witness ==
  /\ last.op = "deleteTransaction"
  /\ NotFoundReply(last)
  /\ last.id \in DOMAIN transactions
  /\ transactions[last.id].businessId # last.businessId
  /\ transactions[last.id].type = INCOME
  /\ Len(transactions[last.id].products) > 0


OwnStockRequest(r, prods) ==
  /\ r.op = "updateStock"
  /\ r.quantity >= 0
  /\ r.id \in DOMAIN prods
  /\ prods[r.id].businessId = r.businessId

\* C9 as stated: a stock request with quantity q >= 0 on a product of the
\* caller's business with stock s is accepted with operation add, subtract or set
\* and without operation, and sets stockQuantity to s + q for add, to
\* max(0, s - q) for subtract, and to q for set and for no operation.
C9_Original ==
  [][OwnStockRequest(last', products) =>
       /\ last'.status = StatusOk
       /\ products'[last'.id].stockQuantity =
            CASE last'.operation = "add" -> products[last'.id].stockQuantity + last'.quantity
              [] last'.operation = "subtract" ->
                   IF products[last'.id].stockQuantity >= last'.quantity
                   THEN products[last'.id].stockQuantity - last'.quantity ELSE 0
              [] OTHER -> last'.quantity]_vars

\* C9 amended: such a request is accepted with operation add or subtract and
\* without operation, and sets stockQuantity to s + q for add, to max(0, s - q)
\* for subtract, and to q when there is no operation; with operation = set it is
\* rejected by the route's validation (400) and the stockQuantity stays s.
C9_Amended ==
  [][OwnStockRequest(last', products) =>
       /\ last'.id \in DOMAIN products'
       /\ last'.operation \in {"add", "subtract", "absent"} =>
            /\ last'.status = StatusOk
            /\ products'[last'.id] =
                 [products[last'.id] EXCEPT !.stockQuantity =
                    CASE last'.operation = "add" -> @ + last'.quantity
                      [] last'.operation = "subtract" ->
                           IF @ >= last'.quantity THEN @ - last'.quantity ELSE 0
                      [] OTHER -> last'.quantity]
       /\ last'.operation = "set" =>
            /\ last'.status = StatusBadRequest
            /\ last'.message = "Validation failed"
            /\ products' = products]_vars

C9_Witness ==
  /\ last.op = "updateStock" /\ last.operation = "subtract"
  /\ last.status = StatusOk
  /\ last.quantity = 2
  /\ last.id \in DOMAIN products
  /\ products[last.id].stockQuantity = 0

LowStock(doc) == doc.stockQuantity <= doc.lowStockThreshold

\* C10: the low-stock listing holds exactly the products of the caller's business
\* that are active and have stockQuantity <= lowStockThreshold, each once, in
\* order of non-decreasing stockQuantity.
C10_LowStockListing ==
  last.op = "getLowStockProducts" =>
    LET d == last.data IN
    /\ last.status = StatusOk
    /\ \A i \in 1..Len(d) :
         /\ d[i] \in DOMAIN products
         /\ products[d[i]].businessId = last.businessId
         /\ products[d[i]].isActive
         /\ LowStock(products[d[i]])
    /\ \A p \in DOMAIN products :
         (products[p].businessId = last.businessId /\ products[p].isActive
            /\ LowStock(products[p]))
           => \E i \in 1..Len(d) : d[i] = p
    /\ \A i, j \in 1..Len(d) :
         i < j => /\ d[i] # d[j]
                  /\ products[d[i]].stockQuantity <= products[d[j]].stockQuantity

C10_Witness ==
  /\ last.op = "getLowStockProducts"
  /\ Len(last.data) = 1
  /\ \E p \in DOMAIN products :
       /\ products[p].businessId = last.businessId
       /\ LowStock(products[p])
       /\ ~products[p].isActive


\* C4: in every state, also between the steps of requests that interleave,
\* every stored product has stockQuantity >= 0.
C4_StockNeverNegative ==
  \A p \in DOMAIN products : products[p].stockQuantity >= 0

\* ------------------------------------------------------------ RouteSpec
\* The router: routes in registration order, a request goes to the first route
\* whose method and path match.  A path is its sequence of segments; ":id" in a
\* route matches any one segment.
Param == ":id"

Route(method, path, handler) == [method |-> method, path |-> path, handler |-> handler]

Routes ==
  << Route("POST", <<"auth", "register">>, "register"),
     Route("POST", <<"auth", "login">>, "login"),
     Route("GET", <<"auth", "profile">>, "getProfile"),
     Route("PUT", <<"auth", "profile">>, "updateProfile"),
     Route("POST", <<"auth", "refresh-token">>, "refreshToken"),
     Route("POST", <<"products">>, "createProduct"),
     Route("GET", <<"products">>, "getProducts"),
     Route("GET", <<"products", Param>>, "getProduct"),
     Route("PUT", <<"products", Param>>, "updateProduct"),
     Route("DELETE", <<"products", Param>>, "deleteProduct"),
     Route("GET", <<"products", "categories">>, "getProductCategories"),
     Route("GET", <<"products", "low-stock">>, "getLowStockProducts"),
     Route("PATCH", <<"products", Param, "stock">>, "updateStock"),
     Route("POST", <<"transactions">>, "createTransaction"),
     Route("GET", <<"transactions">>, "getTransactions"),
     Route("GET", <<"transactions", "summary">>, "getFinancialSummary"),
     Route("GET", <<"transactions", "sales-trends">>, "getSalesTrends"),
     Route("GET", <<"transactions", "categories">>, "getTransactionCategories"),
     Route("GET", <<"transactions", Param>>, "getTransaction"),
     Route("PUT", <<"transactions", Param>>, "updateTransaction"),
     Route("DELETE", <<"transactions", Param>>, "deleteTransaction"),
     Route("GET", <<"analytics", "expenses">>, "getExpenseAnalysis"),
     Route("GET", <<"analytics", "product-performance">>, "getProductPerformance"),
     Route("GET", <<"analytics", "cash-flow">>, "getCashFlow") >>

\* path-to-regexp: as many segments, each equal or taken by a parameter
PathMatches(pattern, path) ==
  /\ Len(pattern) = Len(path)
  /\ \A i \in 1..Len(pattern) : pattern[i] = Param \/ pattern[i] = path[i]

RouteMatches(route, method, path) ==
  route.method = method /\ PathMatches(route.path, path)

\* the handler of the first matching route; notFoundHandler when none matches
Dispatch(method, path) ==
  LET hits == {i \in 1..Len(Routes) : RouteMatches(Routes[i], method, path)} IN
  IF hits = {} THEN "notFoundHandler"
  ELSE Routes[CHOOSE i \in hits : \A j \in hits : i <= j].handler

Methods == {"GET", "POST", "PUT", "PATCH", "DELETE"}

\* the segments of the requests: the fixed ones of the routes, and an id
Segments ==
  {"products", "categories", "low-stock", "stock", "transactions", "summary",
   "sales-trends", "analytics", "expenses", "6541f0c2a1b2c3d4e5f60718"}

MaxSegments == 2

Paths == UNION {[1..n -> Segments] : n \in 1..MaxSegments}

\* the request is handed to the handler of its route
Handle(method, path) ==
  /\ last' = [op |-> "dispatch", method |-> method, path |-> path,
              handler |-> Dispatch(method, path)]
  /\ UNCHANGED <<products, transactions, nextProductId, nextTransactionId, reqs, users, businesses>>

RouteNext == \E method \in Methods, path \in Paths : Handle(method, path)

RouteSpec == Init /\ [][RouteNext]_vars

\* the fixed paths and their dedicated handlers
FixedRoutes ==
  { <<<<"products", "categories">>, "getProductCategories">>,
    <<<<"products", "low-stock">>, "getLowStockProducts">>,
    <<<<"transactions", "summary">>, "getFinancialSummary">>,
    <<<<"transactions", "sales-trends">>, "getSalesTrends">>,
    <<<<"transactions", "categories">>, "getTransactionCategories">> }

\* C11: a GET request to each of the fixed paths /products/categories,
\* /products/low-stock, /transactions/summary, /transactions/sales-trends and
\* /transactions/categories is handled by its dedicated handler, never by the
\* handler of /products/:id or /transactions/:id.
C11_FixedPathsReachTheirHandlers ==
  (last.op = "dispatch" /\ last.method = "GET") =>
     \A f \in FixedRoutes : last.path = f[1] => last.handler = f[2]

\* --------------------------------------------------------- AnalyticsSpec
\* The reports over the stored transactions.  A date is its UTC calendar day;
\* a date string of a query is the day it parses to, or one that does not parse.
Date(y, m, d) == [year |-> y, month |-> m, day |-> d]

\* a <= b on Date values
DateLE(a, b) ==
  \/ a.year < b.year
  \/ a.year = b.year /\ a.month < b.month
  \/ a.year = b.year /\ a.month = b.month /\ a.day <= b.day

\* new Date(NaN)
InvalidDate == [nan |-> TRUE]

IsInvalidDate(d) == Has(d, "nan")

Epoch == Date(1970, 1, 1)

\* a query string that parses to day d, and one that does not parse
DateString(d) == [parses |-> TRUE, date |-> d]

Malformed == [parses |-> FALSE]

\* new Date(startDate as string)
NewDate(str) == IF str.parses THEN str.date ELSE InvalidDate

\* req.user.businessId is the string of the token's payload; the aggregation
\* pipeline is sent as it is written, a string in it is compared as a string
JwtBusinessId(b) == [kind |-> "string", hex |-> b]

\* new mongoose.Types.ObjectId(req.user?.businessId)
ToObjectId(v) == [kind |-> "ObjectId", hex |-> v.hex]

\* { $match: { businessId } } on a stored ObjectId
MatchesBusiness(stored, v) == v.kind = "ObjectId" /\ stored = v.hex

\* if (startDate || endDate) { dateFilter.date = { $gte, $lte } }
DateFilter(query) ==
  [f \in {"startDate", "endDate"} \cap DOMAIN query |-> NewDate(query[f])]

\* a Date of the pipeline as the driver writes it: the NaN time as time 0
BsonDate(d) == IF IsInvalidDate(d) THEN Epoch ELSE d

\* { date: { $gte: start, $lte: end } }
MatchesDate(date, filter) ==
  /\ Has(filter, "startDate") => DateLE(BsonDate(filter.startDate), date)
  /\ Has(filter, "endDate") => DateLE(date, BsonDate(filter.endDate))

\* Transaction.create({ ...transactionData, businessId }) of a body without
\* line items
LedgerDoc(b, body) ==
  [businessId |-> b, type |-> body.type, amount |-> body.amount,
   products |-> <<>>, date |-> body.date, category |-> body.category]

MaxRecords == 2

\* createTransaction of a body without line items: the loop is skipped, the
\* amount check of pre('save') too
RecordTransaction(b, body) ==
  /\ nextTransactionId <= MaxRecords
  /\ transactions' = Insert(transactions, nextTransactionId, LedgerDoc(b, body))
  /\ nextTransactionId' = nextTransactionId + 1
  /\ last' = Response("createTransaction", b, StatusCreated,
                      "Transaction created successfully")
  /\ UNCHANGED <<products, nextProductId, reqs, users, businesses>>

\* what a report answers: the status, the data, and whether the handler has
\* sent a pipeline to the database
Report(op, b, query, status, data, queried) ==
  [op |-> op, businessId |-> b, query |-> query, status |-> status,
   data |-> data, queried |-> queried]

RECURSIVE SumAmounts(_, _)
\* $sum of "$amount" over the documents ids
SumAmounts(txns, ids) ==
  IF ids = {} THEN 0
  ELSE LET t == CHOOSE x \in ids : TRUE
       IN txns[t].amount + SumAmounts(txns, ids \ {t})

\* $cond: [{ $eq: ["$type", type] }, "$amount", 0], summed
SumOfType(txns, ids, type) ==
  SumAmounts(txns, {t \in ids : txns[t].type = type})

NetProfitMutant(income, expenses, withdrawals) == income - expenses

\* $subtract: ["$totalIncome", { $add: ["$totalExpenses", "$totalWithdrawals"] }]
NetProfit(income, expenses, withdrawals) == income - (expenses + withdrawals)

\* the $group with _id: null and the $project: one document, none when nothing
\* matches
SummaryPipeline(txns, ids) ==
  IF ids = {} THEN <<>>
  ELSE LET income == SumOfType(txns, ids, INCOME)
           expenses == SumOfType(txns, ids, EXPENSE)
           withdrawals == SumOfType(txns, ids, WITHDRAWAL)
       IN << [totalIncome |-> income, totalExpenses |-> expenses,
              totalWithdrawals |-> withdrawals,
              netProfit |-> NetProfit(income, expenses, withdrawals)] >>

EmptySummary ==
  [totalIncome |-> 0, totalExpenses |-> 0, totalWithdrawals |-> 0, netProfit |-> 0]

GetFinancialSummary(b, query) ==
  LET businessId == ToObjectId(JwtBusinessId(b))
      filter == DateFilter(query)
      ids == {t \in DOMAIN transactions :
                /\ MatchesBusiness(transactions[t].businessId, businessId)
                /\ MatchesDate(transactions[t].date, filter)}
      result == SummaryPipeline(transactions, ids)
      summary == IF result = <<>> THEN EmptySummary ELSE result[1]
  IN
  /\ last' = Report("getFinancialSummary", b, query, StatusOk, summary, TRUE)
  /\ UNCHANGED <<products, transactions, nextProductId, nextTransactionId, reqs, users, businesses>>

\* groupBy of the period: { year, month } for 'monthly' and by default,
\* { year, month, day } for 'daily'
GroupKey(date, period) ==
  IF period = "daily"
  THEN [year |-> date.year, month |-> date.month, day |-> date.day]
  ELSE [year |-> date.year, month |-> date.month]

KeyBeforeMutant(a, b) ==
  \/ a.month < b.month
  \/ a.month = b.month /\ a.year < b.year
  \/ /\ a.year = b.year /\ a.month = b.month
     /\ Has(a, "day") /\ Has(b, "day") /\ a.day < b.day

\* { $sort: { "_id.year": 1, "_id.month": 1, "_id.day": 1 } }: a before b
KeyBefore(a, b) ==
  \/ a.year < b.year
  \/ a.year = b.year /\ a.month < b.month
  \/ /\ a.year = b.year /\ a.month = b.month
     /\ Has(a, "day") /\ Has(b, "day") /\ a.day < b.day

RECURSIVE SortKeys(_)
\* the keys in the order of the $sort
SortKeys(keys) ==
  IF keys = {} THEN <<>>
  ELSE LET k == CHOOSE x \in keys : \A y \in keys \ {x} : KeyBefore(x, y)
       IN <<k>> \o SortKeys(keys \ {k})

\* num.toString().padStart(2, '0'), as its two digits
Pad(num) == <<num \div 10, num % 10>>

\* formatDate(dateParts, period): the parts of `${year}-${pad(month)}` and of
\* `${year}-${pad(month)}-${pad(day)}`
FormatDate(dateParts, period) ==
  IF period = "daily"
  THEN <<dateParts.year, Pad(dateParts.month), Pad(dateParts.day)>>
  ELSE <<dateParts.year, Pad(dateParts.month)>>

\* const { period = 'monthly' } = req.query
PeriodOf(query) == IF Has(query, "period") THEN query.period ELSE "monthly"

GetSalesTrends(b, query) ==
  LET businessId == ToObjectId(JwtBusinessId(b))
      period == PeriodOf(query)
      filter == DateFilter(query)
      ids == {t \in DOMAIN transactions :
                /\ MatchesBusiness(transactions[t].businessId, businessId)
                /\ transactions[t].type = INCOME
                /\ MatchesDate(transactions[t].date, filter)}
      In(k) == {t \in ids : GroupKey(transactions[t].date, period) = k}
      salesData == SortKeys({GroupKey(transactions[t].date, period) : t \in ids})
      formattedData ==
        [i \in 1..Len(salesData) |->
           [date |-> FormatDate(salesData[i], period),
            sales |-> SumAmounts(transactions, In(salesData[i])),
            transactions |-> Cardinality(In(salesData[i]))]]
  IN
  /\ last' = Report("getSalesTrends", b, query, StatusOk, formattedData, TRUE)
  /\ UNCHANGED <<products, transactions, nextProductId, nextTransactionId, reqs, users, businesses>>

RECURSIVE GCD(_, _)
GCD(a, b) == IF b = 0 THEN a ELSE GCD(b, a % b)

\* the quotient n / d of two numbers, d > 0, as a fraction in lowest terms
Quotient(n, d) == [num |-> n \div GCD(n, d), den |-> d \div GCD(n, d)]

Whole(n) == [num |-> n, den |-> 1]

\* totalExpenses > 0 ? (item.totalAmount / totalExpenses) * 100 : 0
Percentage(totalAmount, totalExpenses) ==
  IF totalExpenses > 0 THEN Quotient(totalAmount * 100, totalExpenses) ELSE Whole(0)

\* the orders { $sort: { totalAmount: -1 } } may give the groups: every
\* arrangement of them in which no total is followed by a larger one
SortedByAmount(txns, groups) ==
  {order \in [1..Cardinality(DOMAIN groups) -> DOMAIN groups] :
     /\ \A i, j \in DOMAIN order : i # j => order[i] # order[j]
     /\ \A i, j \in DOMAIN order : i < j => groups[order[i]] >= groups[order[j]]}

RECURSIVE SumSeq(_, _)
\* expenseData.reduce((sum, item) => sum + item.totalAmount, 0)
SumSeq(groups, order) ==
  IF order = <<>> THEN 0 ELSE groups[Head(order)] + SumSeq(groups, Tail(order))

GetExpenseAnalysis(b, query) ==
  LET businessId == JwtBusinessId(b)
      filter == DateFilter(query)
      ids == {t \in DOMAIN transactions :
                /\ MatchesBusiness(transactions[t].businessId, businessId)
                /\ transactions[t].type = EXPENSE
                /\ MatchesDate(transactions[t].date, filter)}
      groups == [c \in {transactions[t].category : t \in ids} |->
                   SumAmounts(transactions, {t \in ids : transactions[t].category = c})]
  IN
  /\ \E expenseData \in SortedByAmount(transactions, groups) :
       LET totalExpenses == SumSeq(groups, expenseData)
           result == [i \in 1..Len(expenseData) |->
                        [category |-> expenseData[i],
                         amount |-> groups[expenseData[i]],
                         percentage |-> Percentage(groups[expenseData[i]], totalExpenses)]]
       IN last' = Report("getExpenseAnalysis", b, query, StatusOk, result, TRUE)
  /\ UNCHANGED <<products, transactions, nextProductId, nextTransactionId, reqs, users, businesses>>

\* getCashFlow: income, expenses and withdrawals of every period
GetCashFlow(b, query) ==
  LET businessId == JwtBusinessId(b)
      period == PeriodOf(query)
      filter == DateFilter(query)
      ids == {t \in DOMAIN transactions :
                /\ MatchesBusiness(transactions[t].businessId, businessId)
                /\ MatchesDate(transactions[t].date, filter)}
      In(k) == {t \in ids : GroupKey(transactions[t].date, period) = k}
      cashFlowData == SortKeys({GroupKey(transactions[t].date, period) : t \in ids})
      formattedData ==
        [i \in 1..Len(cashFlowData) |->
           LET income == SumOfType(transactions, In(cashFlowData[i]), INCOME)
               expenses == SumOfType(transactions, In(cashFlowData[i]), EXPENSE)
               withdrawals == SumOfType(transactions, In(cashFlowData[i]), WITHDRAWAL)
           IN [date |-> FormatDate(cashFlowData[i], period),
               income |-> income, expenses |-> expenses, withdrawals |-> withdrawals,
               netCashFlow |-> income - (expenses + withdrawals)]]
  IN
  /\ last' = Report("getCashFlow", b, query, StatusOk, formattedData, TRUE)
  /\ UNCHANGED <<products, transactions, nextProductId, nextTransactionId, reqs, users, businesses>>

\* the days of the stored transactions: two of one month, one of the month
\* before, in the year before
LedgerDates == {Date(2023, 12, 15), Date(2024, 1, 10), Date(2024, 1, 20)}

MaxAmount == 2

Categories == {"rent", "supplies"}

\* the bodies without line items: the category matters to the expenses
LedgerBodies ==
  {[type |-> t, amount |-> a, date |-> d, category |-> c] :
     t \in TransactionType, a \in 1..MaxAmount, d \in LedgerDates, c \in Categories}
    \ {body \in [type : TransactionType, amount : 1..MaxAmount, date : LedgerDates,
                 category : Categories] :
         body.type # EXPENSE /\ body.category # "supplies"}

\* req.query of the reports: no range, a range from or up to the first day of
\* the later month, a start that is no date
Queries ==
  { << >>,
    [startDate |-> DateString(Date(2024, 1, 10))],
    [endDate |-> DateString(Date(2024, 1, 10))],
    [startDate |-> Malformed] }

AnalyticsNext ==
  \/ \E b \in Businesses, body \in LedgerBodies : RecordTransaction(b, body)
  \/ \E b \in Businesses, query \in Queries : GetFinancialSummary(b, query)
  \/ \E b \in Businesses, query \in Queries : GetSalesTrends(b, query)
  \/ \E b \in Businesses, query \in Queries : GetExpenseAnalysis(b, query)
  \/ \E b \in Businesses, query \in Queries : GetCashFlow(b, query)

AnalyticsSpec == Init /\ [][AnalyticsNext]_vars

\* the request is a report op whose date strings, if any, parse
DatedReport(r, op) ==
  /\ r.op = op
  /\ \A f \in DOMAIN r.query \cap {"startDate", "endDate"} : r.query[f].parses

\* the transactions of business b of the types, dated inside the range of the query
InRange(txns, b, types, query) ==
  {t \in DOMAIN txns :
     /\ txns[t].businessId = b
     /\ txns[t].type \in types
     /\ Has(query, "startDate") => DateLE(query.startDate.date, txns[t].date)
     /\ Has(query, "endDate") => DateLE(txns[t].date, query.endDate.date)}

RECURSIVE AmountOver(_, _)
AmountOver(txns, ids) ==
  IF ids = {} THEN 0
  ELSE LET t == CHOOSE x \in ids : \A y \in ids : x >= y
       IN AmountOver(txns, ids \ {t}) + txns[t].amount

\* C12: getFinancialSummary answers 200 with totalIncome, totalExpenses and
\* totalWithdrawals the sums of the amounts of the caller's income, expense and
\* withdrawal transactions inside the date range, and netProfit = totalIncome -
\* (totalExpenses + totalWithdrawals); all four are 0 when no transaction matches.
C12_FinancialSummary ==
  DatedReport(last, "getFinancialSummary") =>
    LET Of(type) ==
          AmountOver(transactions,
                     InRange(transactions, last.businessId, {type}, last.query))
    IN /\ last.status = StatusOk
       /\ last.data.totalIncome = Of(INCOME)
       /\ last.data.totalExpenses = Of(EXPENSE)
       /\ last.data.totalWithdrawals = Of(WITHDRAWAL)
       /\ last.data.netProfit = Of(INCOME) - (Of(EXPENSE) + Of(WITHDRAWAL))
       /\ InRange(transactions, last.businessId, TransactionType, last.query) = {}
            => last.data = EmptySummary

C12_Witness ==
  /\ DatedReport(last, "getFinancialSummary")
  /\ Has(last.query, "endDate")
  /\ last.data.totalIncome > 0
  /\ last.data.totalWithdrawals > 0
  /\ last.data.netProfit < 0

\* the (year, month) of a bucket, read back from its date
MonthOf(bucket) == <<bucket.date[1], bucket.date[2][1] * 10 + bucket.date[2][2]>>

\* C13: getSalesTrends with period monthly answers exactly one bucket per (year,
\* month) holding an income transaction of the caller's business (inside the
\* date range); its sales is the sum of their amounts and its transactions their
\* number; expenses and withdrawals are in no bucket; the buckets come in
\* ascending chronological order.
C13_MonthlySalesTrends ==
  (DatedReport(last, "getSalesTrends") /\ PeriodOf(last.query) = "monthly") =>
    LET mine == InRange(transactions, last.businessId, {INCOME}, last.query)
        Of(ym) == {t \in mine : <<transactions[t].date.year, transactions[t].date.month>> = ym}
        months == {<<transactions[t].date.year, transactions[t].date.month>> : t \in mine}
        data == last.data
    IN /\ last.status = StatusOk
       /\ Len(data) = Cardinality(months)
       /\ {MonthOf(data[i]) : i \in 1..Len(data)} = months
       /\ \A i \in 1..Len(data) :
            /\ Len(data[i].date) = 2
            /\ data[i].sales = AmountOver(transactions, Of(MonthOf(data[i])))
            /\ data[i].transactions = Cardinality(Of(MonthOf(data[i])))
       /\ \A i, j \in 1..Len(data) :
            i < j => \/ MonthOf(data[i])[1] < MonthOf(data[j])[1]
                     \/ /\ MonthOf(data[i])[1] = MonthOf(data[j])[1]
                        /\ MonthOf(data[i])[2] < MonthOf(data[j])[2]

\* two incomes of one month, on different days, in one bucket
C13_Witness ==
  /\ DatedReport(last, "getSalesTrends") /\ PeriodOf(last.query) = "monthly"
  /\ Len(last.data) = 1
  /\ last.data[1].transactions = 2
  /\ last.data[1].sales = 3
  /\ \E t, u \in DOMAIN transactions : transactions[t].date.day # transactions[u].date.day

\* C14: getExpenseAnalysis answers one entry per category of the caller's
\* expense transactions (inside the date range), with amount the sum of the
\* category's expenses and percentage = amount / total expenses x 100, in order
\* of non-increasing amount; one category with a positive total is a single
\* entry with percentage 100.
C14_ExpenseAnalysis ==
  DatedReport(last, "getExpenseAnalysis") =>
    LET mine == InRange(transactions, last.businessId, {EXPENSE}, last.query)
        Of(c) == {t \in mine : transactions[t].category = c}
        total == AmountOver(transactions, mine)
        data == last.data
    IN /\ last.status = StatusOk
       /\ Len(data) = Cardinality({transactions[t].category : t \in mine})
       /\ {data[i].category : i \in 1..Len(data)} = {transactions[t].category : t \in mine}
       /\ \A i \in 1..Len(data) :
            /\ data[i].amount = AmountOver(transactions, Of(data[i].category))
            /\ data[i].percentage.num * total = data[i].amount * 100 * data[i].percentage.den
       /\ \A i, j \in 1..Len(data) : i < j => data[i].amount >= data[j].amount
       /\ (Cardinality({transactions[t].category : t \in mine}) = 1 /\ total > 0)
            => Len(data) = 1 /\ data[1].percentage = Whole(100)

\* a report whose startDate or endDate does not parse
MalformedReport(r) ==
  /\ r.op \in {"getFinancialSummary", "getSalesTrends", "getExpenseAnalysis",
               "getProductPerformance", "getCashFlow"}
  /\ \E f \in DOMAIN r.query \cap {"startDate", "endDate"} : ~r.query[f].parses

\* C16: a report request whose startDate or endDate does not parse as a date is
\* answered 400, and no query for it goes to the database.
C16_MalformedDateRejected ==
  MalformedReport(last) => last.status = StatusBadRequest /\ ~last.queried

\* ------------------------------------------------------------ PriceSpec
\* the prices of the products: createProduct and updateProduct
MaxPrice == 2

PricedProductBodies ==
  {[stockQuantity |-> 0, costPrice |-> c, salePrice |-> p] :
     c \in 0..MaxPrice, p \in 0..MaxPrice}

\* an update of the salePrice alone, of the costPrice alone, or of both
PriceUpdates ==
  {[salePrice |-> p] : p \in 0..MaxPrice}
    \cup {[costPrice |-> c] : c \in 0..MaxPrice}
    \cup {[costPrice |-> c, salePrice |-> p] : c \in 0..MaxPrice, p \in 0..MaxPrice}

PriceNext ==
  \/ \E b \in Businesses, body \in PricedProductBodies : CreateProduct(b, body)
  \/ \E b \in Businesses, id \in ProductIds, body \in PriceUpdates :
       UpdateProduct(b, id, body)

PriceSpec == Init /\ [][PriceNext]_vars

\* C20: after every createProduct and every updateProduct request, whatever
\* fields the update carries, every stored product has salePrice >= costPrice.
C20_SalePriceCoversCost ==
  \A p \in DOMAIN products : products[p].salePrice >= products[p].costPrice

\* ------------------------------------------------------ PerformanceSpec
\* the sales of priced products and the report on them
RECURSIVE SumNumbers(_, _)
\* $sum over the line items lines of the values f gives: <<v>> a number, <<>>
\* a null, which is passed over
SumNumbers(lines, f) ==
  IF lines = {} THEN 0
  ELSE LET l == CHOOSE x \in lines : TRUE
       IN (IF f[l] = <<>> THEN 0 ELSE f[l][1]) + SumNumbers(lines \ {l}, f)

\* $subtract: ["$products.totalPrice", { $multiply: ["$products.quantity",
\* "$products.costPrice"] }]: null when the line item has no costPrice
LineProfit(item) ==
  IF Has(item, "costPrice")
  THEN <<item.totalPrice - item.quantity * item.costPrice>>
  ELSE <<>>

\* $cond: [{ $eq: ["$revenue", 0] }, 0, ($profit / $revenue) * 100]
ProfitMargin(profit, revenue) ==
  IF revenue = 0 THEN Whole(0)
  ELSE IF profit >= 0 THEN Quotient(profit * 100, revenue)
  ELSE [num |-> 0 - Quotient((0 - profit) * 100, revenue).num,
        den |-> Quotient((0 - profit) * 100, revenue).den]

GetProductPerformance(b, query) ==
  LET businessId == JwtBusinessId(b)
      filter == DateFilter(query)
      ids == {t \in DOMAIN transactions :
                /\ MatchesBusiness(transactions[t].businessId, businessId)
                /\ transactions[t].type = INCOME
                /\ Len(transactions[t].products) >= 1
                /\ MatchesDate(transactions[t].date, filter)}
      \* $unwind: "$products"
      lines == {l \in ids \X (1..MaxItems) : l[2] <= Len(transactions[l[1]].products)}
      Item(l) == transactions[l[1]].products[l[2]]
      Of(p) == {l \in lines : Item(l).productId = p}
      Quantity == [l \in lines |-> <<Item(l).quantity>>]
      TotalPrice == [l \in lines |-> <<Item(l).totalPrice>>]
      Profit == [l \in lines |-> LineProfit(Item(l))]
      revenue == [p \in {Item(l).productId : l \in lines} |-> SumNumbers(Of(p), TotalPrice)]
  IN
  /\ \E order \in SortedByAmount(transactions, revenue) :
       \* $lookup in products and $unwind: a group whose product is gone is dropped
       LET kept == SelectSeq(order, LAMBDA p : p \in DOMAIN products)
           performanceData ==
             [i \in 1..Len(kept) |->
                [productId |-> kept[i],
                 unitsSold |-> SumNumbers(Of(kept[i]), Quantity),
                 revenue |-> revenue[kept[i]],
                 profit |-> SumNumbers(Of(kept[i]), Profit),
                 profitMargin |-> ProfitMargin(SumNumbers(Of(kept[i]), Profit),
                                               revenue[kept[i]])]]
       IN last' = Report("getProductPerformance", b, query, StatusOk, performanceData, TRUE)
  /\ UNCHANGED <<products, transactions, nextProductId, nextTransactionId, reqs, users, businesses>>

\* the products on sale: in stock, the sale price covering the cost
OnSaleBodies ==
  {body \in [stockQuantity : {MaxStock}, costPrice : 0..1, salePrice : 1..MaxPrice] :
     body.salePrice >= body.costPrice}

\* the line items of a sale: one unit at the price 1, sent with or without the
\* cost price of the product
SaleItems ==
  [productId : ProductIds, quantity : {1}, unitPrice : {1}, totalPrice : {1}]
    \cup [productId : ProductIds, quantity : {1}, unitPrice : {1}, totalPrice : {1},
          costPrice : {1}]

\* the sales, and an expense with the same line items
SaleBodies ==
  {[type |-> t, amount |-> Len(l), products |-> l, date |-> Date(2024, 1, 10)] :
     t \in {INCOME, EXPENSE},
     l \in UNION {[1..n -> SaleItems] : n \in 1..MaxItems}}

PerformanceQueries ==
  { << >>, [startDate |-> DateString(Date(2024, 1, 10))], [endDate |-> Malformed] }

PerformanceNext ==
  \/ \E b \in Businesses, body \in OnSaleBodies : CreateProduct(b, body)
  \/ \E b \in Businesses, body \in SaleBodies : CreateTransaction(b, body)
  \/ \E b \in Businesses, query \in PerformanceQueries : GetProductPerformance(b, query)

PerformanceSpec == Init /\ [][PerformanceNext]_vars

\* C15: getProductPerformance answers, for each product sold in the caller's
\* income transactions with line items (inside the date range), one entry with
\* unitsSold the sum of the line-item quantities, revenue the sum of their
\* totalPrice, profit = revenue - the sum of quantity x the product's cost price,
\* profitMargin = profit / revenue x 100 (0 when revenue is 0), in order of
\* non-increasing revenue; for a product with costPrice > 0 and a unit sold,
\* profit < revenue.
C15_ProductPerformance ==
  DatedReport(last, "getProductPerformance") =>
    LET mine == InRange(transactions, last.businessId, {INCOME}, last.query)
        sold == {p \in DOMAIN products :
                   \E t \in mine : \E k \in 1..Len(transactions[t].products) :
                      transactions[t].products[k].productId = p}
        Units(p) == AmountOver([t \in mine |-> [amount |-> TotalFor(transactions[t].products, p)]],
                               mine)
        data == last.data
    IN /\ last.status = StatusOk
       /\ Len(data) = Cardinality(sold)
       /\ {data[i].productId : i \in 1..Len(data)} = sold
       /\ \A i \in 1..Len(data) :
            LET p == data[i].productId IN
            /\ data[i].unitsSold = Units(p)
            /\ data[i].profit = data[i].revenue - Units(p) * products[p].costPrice
            /\ data[i].profitMargin = ProfitMargin(data[i].profit, data[i].revenue)
            /\ (products[p].costPrice > 0 /\ Units(p) >= 1) => data[i].profit < data[i].revenue
       /\ \A i, j \in 1..Len(data) : i < j => data[i].revenue >= data[j].revenue

\* ------------------------------------------------------------ RegisterSpec
\* POST /auth/register on several connections at once: each await of register
\* is a step, and the steps of different requests interleave
StatusUnauthorized == 401

MaxUsers == 2
MinPasswordLength == 6

UserExistsMessage == "User already exists with this email"
DuplicateMessage(field) ==
  IF field = "email" THEN "Duplicate value for email. Please use another value."
  ELSE "Duplicate value for userId. Please use another value."
ValidationFailed == "Validation failed"
UploadFailed == "Error al subir el logo."
Registered == "User registered successfully"

\* isEmail() of express-validator, on the addresses the requests carry
IsEmail(email) == email \in {"ana@pyme.go", "luis@pyme.go"}

NotEmpty(value) == value # ""

\* the validation chains of router.post('/auth/register')
RegisterRouteValid(body) ==
  /\ IsEmail(body.email)
  /\ Len(body.password) >= MinPasswordLength
  /\ \A f \in {"name", "category", "currency", "timezone"} :
       Has(body.business, f) /\ NotEmpty(body.business[f])

BusinessCategory == {"restaurant", "retail", "service", "manufacturing", "other"}
Currencies == {"USD", "EUR", "MXN", "COP", "PEN", "CLP", "ARG"}
BusinessPaths == {"userId", "name", "category", "currency", "timezone", "logoUrl"}

\* { userId: user._id, ...businessData, logoUrl }: a later key wins, and the
\* schema keeps its own paths only
BusinessDoc(userId, businessData, logoUrl) ==
  [f \in (DOMAIN businessData \cup {"userId", "logoUrl"}) \cap BusinessPaths |->
     IF f = "logoUrl" THEN logoUrl
     ELSE IF f \in DOMAIN businessData THEN businessData[f]
     ELSE userId]

\* businessSchema: the required paths and the enumerations
BusinessValid(doc) ==
  /\ Has(doc, "userId")
  /\ \A f \in {"name", "category", "currency", "timezone"} :
       Has(doc, f) /\ NotEmpty(doc[f])
  /\ doc.category \in BusinessCategory
  /\ doc.currency \in Currencies

\* businessSchema.index({ userId: 1 }, { unique: true })
UserIdUnique(collection, userId) ==
  \A b \in DOMAIN collection : collection[b].userId # userId

\* the User document of User.create({ email, password }): the password is kept
\* hashed and is read by login only
UserDoc(body) == [email |-> body.email, isAdmin |-> FALSE]

\* the unique index on the email of User
EmailUnique(collection, email) ==
  \A u \in DOMAIN collection : collection[u].email # email

ExistingUserMutant(collection, email) == FALSE

\* await User.findOne({ email })
ExistingUser(collection, email) ==
  \E u \in DOMAIN collection : collection[u].email = email

\* the response of register, and the payload of the token it hands out
RegisterResponse(body, status, message, userId, businessId) ==
  [op |-> "register", email |-> body.email, status |-> status, message |-> message,
   userId |-> userId, businessId |-> businessId]

Registering(pc, body, file, userId, logoUrl) ==
  [pc |-> pc, op |-> "register", body |-> body, file |-> file, userId |-> userId,
   logoUrl |-> logoUrl]

\* res.status(status).json(...), or next(error) and the errorHandler
Answer(s, status, message, userId, businessId) ==
  /\ reqs' = [reqs EXCEPT ![s] = Idle]
  /\ last' = RegisterResponse(reqs[s].body, status, message, userId, businessId)

\* the request arrives: validate([...]) answers 400 or calls register
ReceiveRegister(s, body, file) ==
  /\ reqs[s].pc = "idle"
  /\ UNCHANGED <<products, transactions, nextProductId, nextTransactionId,
                 users, businesses>>
  /\ IF ~RegisterRouteValid(body)
     THEN /\ reqs' = reqs
          /\ last' = RegisterResponse(body, StatusBadRequest, ValidationFailed, 0, 0)
     ELSE /\ reqs' = [reqs EXCEPT ![s] = Registering("findOne", body, file, 0, "")]
          /\ UNCHANGED last

\* const existingUser = await User.findOne({ email })
FindUser(s) ==
  LET r == reqs[s] IN
  /\ r.pc = "findOne"
  /\ UNCHANGED <<products, transactions, nextProductId, nextTransactionId,
                 users, businesses>>
  /\ IF ExistingUser(users, r.body.email)
     THEN Answer(s, StatusBadRequest, UserExistsMessage, 0, 0)
     ELSE /\ reqs' = [reqs EXCEPT ![s].pc = IF r.file THEN "upload" ELSE "createUser"]
          /\ UNCHANGED last

\* logoUrl = await uploadToCloudinary(req.file.buffer): the image store
\* answers with the address of the logo, or fails
UploadLogo(s) ==
  LET r == reqs[s] IN
  /\ r.pc = "upload"
  /\ UNCHANGED <<products, transactions, nextProductId, nextTransactionId,
                 users, businesses>>
  /\ \/ /\ reqs' = [reqs EXCEPT ![s].pc = "createUser", ![s].logoUrl = "logo"]
        /\ UNCHANGED last
     \/ Answer(s, StatusServerError, UploadFailed, 0, 0)

\* const user = await User.create({ email, password })
CreateUser(s) ==
  LET r == reqs[s] IN
  /\ r.pc = "createUser"
  /\ UNCHANGED <<products, transactions, nextProductId, nextTransactionId, businesses>>
  /\ IF ~EmailUnique(users, r.body.email)
     THEN /\ Answer(s, StatusBadRequest, DuplicateMessage("email"), 0, 0)
          /\ UNCHANGED users
     ELSE /\ Len(users) < MaxUsers
          /\ users' = Append(users, UserDoc(r.body))
          /\ reqs' = [reqs EXCEPT ![s].pc = "createBusiness",
                                  ![s].userId = Len(users) + 1]
          /\ UNCHANGED last

\* const business = await Business.create({ userId: user._id, ...businessData,
\* logoUrl }), the token and the 201
CreateBusiness(s) ==
  LET r == reqs[s]
      doc == BusinessDoc(r.userId, r.body.business, r.logoUrl)
  IN
  /\ r.pc = "createBusiness"
  /\ UNCHANGED <<products, transactions, nextProductId, nextTransactionId, users>>
  /\ IF ~BusinessValid(doc)
     THEN /\ Answer(s, StatusBadRequest, "Validation Error", r.userId, 0)
          /\ UNCHANGED businesses
     ELSE IF ~UserIdUnique(businesses, doc.userId)
     THEN /\ Answer(s, StatusBadRequest, DuplicateMessage("userId"), r.userId, 0)
          /\ UNCHANGED businesses
     ELSE /\ businesses' = Append(businesses, doc)
          /\ Answer(s, StatusCreated, Registered, r.userId, Len(businesses) + 1)

\* the request bodies of register: two addresses and one that is none, a
\* password too short, a category and a currency outside the enumerations, and
\* a body whose business names its owner itself
RegisterBodies ==
  {[email |-> e, password |-> p,
    business |-> [name |-> "Tienda", category |-> c, currency |-> cu,
                  timezone |-> "America/Lima"]] :
     e \in {"ana@pyme.go", "luis@pyme.go", "ana"}, p \in {"secret1", "abc"},
     c \in {"retail", "kiosk", ""}, cu \in {"USD", "BTC"}}
  \cup
  {[email |-> "luis@pyme.go", password |-> "secret1",
    business |-> [name |-> "Tienda", category |-> "retail", currency |-> "USD",
                  timezone |-> "America/Lima", userId |-> 1]]}

RegisterNext ==
  \/ \E s \in Slots, body \in RegisterBodies, file \in BOOLEAN : ReceiveRegister(s, body, file)
  \/ \E s \in Slots : FindUser(s)
  \/ \E s \in Slots : UploadLogo(s)
  \/ \E s \in Slots : CreateUser(s)
  \/ \E s \in Slots : CreateBusiness(s)

RegisterSpec == Init /\ [][RegisterNext]_vars

\* the request of connection s is inside register and takes a step
RegisterStep(s) ==
  /\ reqs[s].op = "register"
  /\ reqs'[s] # reqs[s]

\* no two stored users share an email
EmailsDistinct(collection) ==
  \A u, w \in DOMAIN collection :
    collection[u].email = collection[w].email => u = w

\* C18: a register request that looks up or inserts its user while a user with
\* its email is stored is answered 400 with a duplicate message at that step,
\* neither collection changes at that step (no User or Business is added, the
\* stored user and its business stay as they are), and, however the requests
\* interleave, no two stored users ever share an email.
C18_DuplicateEmailRejected ==
  [][/\ EmailsDistinct(users')
     /\ \A s \in Slots :
          (/\ RegisterStep(s)
           /\ reqs[s].pc \in {"findOne", "createUser"}
           /\ \E u \in DOMAIN users : users[u].email = reqs[s].body.email)
          => /\ reqs'[s] = Idle
             /\ last'.op = "register"
             /\ last'.email = reqs[s].body.email
             /\ last'.status = StatusBadRequest
             /\ last'.message \in {UserExistsMessage, DuplicateMessage("email")}
             /\ users' = users
             /\ businesses' = businesses]_vars

\* two requests for one email have interleaved: the second one passed the
\* lookup and was stopped at the insert, and the email is stored once
C18_Witness ==
  /\ last.op = "register"
  /\ last.status = StatusBadRequest
  /\ last.message = DuplicateMessage("email")
  /\ Cardinality({u \in DOMAIN users : users[u].email = last.email}) = 1

\* the businesses of user u
BusinessesOf(u) == {b \in DOMAIN businesses : businesses[b].userId = u}

\* C19: whenever no register request is in flight, every stored User owns
\* exactly one Business, whatever requests were answered before, the ones
\* rejected by the Business schema included.
C19_OneBusinessPerUser ==
  (\A s \in Slots : reqs[s] = Idle)
    => \A u \in DOMAIN users : Cardinality(BusinessesOf(u)) = 1

\* ------------------------------------------------------------ AuthSpec
\* The routes behind authenticate.  A token is its payload, whether its
\* signature verifies with the secret of the server, and whether its exp is over.
NoHeader == [scheme |-> "none"]
BasicHeader == [scheme |-> "Basic"]
Bearer(token) == [scheme |-> "Bearer", token |-> token]

Token(userId, businessId, signed, expired) ==
  [userId |-> userId, businessId |-> businessId, signed |-> signed, expired |-> expired]

NoTokenMessage == "Access denied. No token provided."
TokenExpiredMessage == "Token expired."
InvalidTokenMessage == "Invalid token."
NoUserMessage == "Token is no longer valid."
NoBusinessMessage == "Business no longer exists."

JwtVerifyMutant(token) ==
  IF ~token.signed THEN "JsonWebTokenError" ELSE "decoded"

\* jwt.verify(token, config.jwt.secret): the signature is checked before exp
JwtVerify(token) ==
  IF ~token.signed THEN "JsonWebTokenError"
  ELSE IF token.expired THEN "TokenExpiredError"
  ELSE "decoded"

Denied(message) == [next |-> FALSE, status |-> StatusUnauthorized, message |-> message]

\* authenticate: answers 401, or sets req.user and calls next()
Authenticate(header) ==
  IF header.scheme # "Bearer" THEN Denied(NoTokenMessage)
  ELSE IF JwtVerify(header.token) = "TokenExpiredError" THEN Denied(TokenExpiredMessage)
  ELSE IF JwtVerify(header.token) = "JsonWebTokenError" THEN Denied(InvalidTokenMessage)
  ELSE IF header.token.userId \notin DOMAIN users THEN Denied(NoUserMessage)
  ELSE IF header.token.businessId \notin DOMAIN businesses THEN Denied(NoBusinessMessage)
  ELSE [next |-> TRUE,
        user |-> [userId |-> header.token.userId, businessId |-> header.token.businessId]]

\* the middleware each route lists before its handler
Chain(handler) ==
  IF handler \in {"register", "login"} THEN <<"authLimiter", "validate">>
  ELSE IF handler \in {"createProduct", "updateStock", "createTransaction"}
  THEN <<"authenticate", "validate">>
  ELSE IF handler = "notFoundHandler" THEN << >>
  ELSE <<"authenticate">>

Lists(chain, middleware) == \E i \in 1..Len(chain) : chain[i] = middleware

\* req.params.id of a path
ParamId(path) == IF path[Len(path)] = "1" THEN 1 ELSE 2

\* the products of AuthSpec: full shelves
AuthProductBodies == {body \in DefaultProductBodies : body.stockQuantity = MaxStock}

\* the transactions of AuthSpec: an expense of nothing, with no line items
AuthTransactionBodies ==
  {body \in CreateTransactionBodies :
     body.type = EXPENSE /\ body.products = << >> /\ body.amount = 0}

\* the handlers the requests of AuthSpec reach, with the business of req.user
Run(handler, path, b) ==
  CASE handler = "createProduct" -> \E body \in AuthProductBodies : CreateProduct(b, body)
    [] handler = "deleteProduct" -> DeleteProduct(b, ParamId(path))
    [] handler = "createTransaction" ->
         \E body \in AuthTransactionBodies : CreateTransaction(b, body)
    [] OTHER -> FALSE

AuthMethods == {"GET", "POST", "DELETE"}

AuthPaths ==
  {<<"products">>, <<"products", "1">>, <<"products", "low-stock">>,
   <<"transactions">>, <<"auth", "profile">>}

\* the router stack is built once, when the server starts: the handler each
\* request of AuthSpec is dispatched to
Handlers == [c \in AuthMethods \X AuthPaths |-> Dispatch(c[1], c[2])]

\* res.status(401).json(...) of authenticate: the request ends there
Deny(method, path, auth) ==
  /\ last' = [op |-> "authenticate", method |-> method, path |-> path,
              status |-> auth.status, message |-> auth.message]
  /\ UNCHANGED <<products, transactions, nextProductId, nextTransactionId, reqs,
                 users, businesses>>

\* a request to a route of the router other than register and login: the
\* handler runs once every middleware of the route has called next(), with
\* the business of req.user (none, 0, when authenticate did not set it)
Call(method, path, header) ==
  LET handler == Handlers[<<method, path>>]
      guarded == Lists(Chain(handler), "authenticate")
      auth == Authenticate(header)
  IN
  /\ handler \notin {"register", "login", "notFoundHandler"}
  /\ IF guarded /\ ~auth.next
     THEN Deny(method, path, auth)
     ELSE Run(handler, path, IF guarded THEN auth.user.businessId ELSE 0)

\* the tokens register and login have signed: one for each stored business and
\* its owner, by now expired or not
IssuedTokens ==
  {Token(businesses[b].userId, b, TRUE, expired) :
     b \in DOMAIN businesses, expired \in BOOLEAN}

\* tokens nobody signed with the secret, whatever they say
ForgedTokens ==
  {Token(1, 1, FALSE, expired) : expired \in BOOLEAN}

Headers == {NoHeader, BasicHeader} \cup {Bearer(t) : t \in IssuedTokens \cup ForgedTokens}



\* the business that registers in AuthSpec
AuthRegisterBodies ==
  {body \in RegisterBodies :
     /\ body.email = "ana@pyme.go"
     /\ RegisterRouteValid(body)
     /\ ~Has(body.business, "userId")
     /\ BusinessValid(BusinessDoc(1, body.business, ""))}

AuthNext ==
  \/ \E body \in AuthRegisterBodies : ReceiveRegister(1, body, FALSE)
  \/ FindUser(1)
  \/ CreateUser(1)
  \/ CreateBusiness(1)
  \/ \E method \in AuthMethods, path \in AuthPaths, header \in Headers :
       Call(method, path, header)

AuthSpec == Init /\ [][AuthNext]_vars

\* the header carries a token the server signed, with its exp over
ExpiredToken(header) ==
  /\ header.scheme = "Bearer"
  /\ header.token.signed
  /\ header.token.expired

\* the request was answered 401 by authenticate, and nothing stored changed
Refused(method, path) ==
  /\ last'.op = "authenticate"
  /\ last'.method = method
  /\ last'.path = path
  /\ last'.status = StatusUnauthorized
  /\ UNCHANGED <<users, businesses, products, transactions>>

\* the requests of AuthSpec to a route other than register and login
ProtectedCalls ==
  {c \in AuthMethods \X AuthPaths :
     Dispatch(c[1], c[2]) \notin {"register", "login", "notFoundHandler"}}

\* C17: a request to a route other than register and login that carries no
\* 'Authorization: Bearer <token>' header is answered 401, one that carries an
\* expired token is answered 401 with the message of the expiry, and in both
\* cases the handler of the route does not run: no stored user, business,
\* product or transaction changes.
C17_UnauthenticatedRefused ==
  [][\A c \in ProtectedCalls, header \in Headers :
       (/\ header.scheme # "Bearer" \/ ExpiredToken(header)
        /\ Call(c[1], c[2], header))
       => /\ Refused(c[1], c[2])
          /\ ExpiredToken(header) => last'.message = TokenExpiredMessage]_vars

\* an expired token of a registered business was refused while that business
\* had products to lose
C17_Witness ==
  /\ last.op = "authenticate"
  /\ last.message = TokenExpiredMessage
  /\ last.method = "DELETE"
  /\ Len(businesses) > 0
  /\ \E id \in DOMAIN products : products[id].businessId \in DOMAIN businesses

\* ------------------------------------------------------------ MarginSpec
\* the writes to a priced product: created, updated, restocked
MarginStockBodies == {[quantity |-> 1, operation |-> "add"]}

MarginNext ==
  \/ \E b \in Sellers, body \in PricedProductBodies : CreateProduct(b, body)
  \/ \E b \in Sellers, id \in ProductIds, body \in PriceUpdates :
       UpdateProduct(b, id, body)
  \/ \E b \in Sellers, id \in ProductIds, body \in MarginStockBodies :
       UpdateStock(b, id, body)

MarginSpec == Init /\ [][MarginNext]_vars

\* C21: after every write to a product, the stored margin of every product
\* with a salePrice other than 0 equals (salePrice - costPrice) / salePrice
\* x 100 of the stored salePrice and costPrice, also when costPrice is 0.
C21_MarginMatchesPrices ==
  \A p \in DOMAIN products :
    products[p].salePrice # 0 =>
      products[p].margin = MarginOf(products[p].salePrice, products[p].costPrice)

\* C22: no updateProduct request, whatever its body, changes the stockQuantity
\* of an existing product: the stock moves through updateStock and through
\* createTransaction and deleteTransaction only.
C22_UpdateProductKeepsStock ==
  [][last'.op = "updateProduct" =>
       \A p \in DOMAIN products \cap DOMAIN products' :
          products'[p].stockQuantity = products[p].stockQuantity]_vars

\* C23: after any sequence of createTransaction and updateTransaction
\* requests, the amount of every stored transaction that has line items is the
\* sum of quantity x unitPrice over them (a request that would store another
\* amount is rejected).
C23_StoredAmountMatchesItems ==
  \A t \in DOMAIN transactions :
    Len(transactions[t].products) > 0 =>
      transactions[t].amount = SumQuantityTimesPrice(transactions[t].products)

\* the answers of createTransaction to a request that breaks a rule of the
\* domain: not enough stock, an amount that is not the total of the line items
DomainRuleReply(r) ==
  /\ r.op = "createTransaction"
  /\ r.message \in {"Insufficient stock", "Amount must match sum of products"}

\* C24: a createTransaction that breaks a rule of the domain (not enough stock,
\* an amount that does not match the line items) is answered 400, never 500.
C24_DomainRuleViolationIs400 ==
  DomainRuleReply(last) => last.status = StatusBadRequest

\* the quantity of product p in the line items of a transaction, when the
\* transaction is a sale
SoldBy(doc, p) == IF doc.type = INCOME THEN TotalFor(doc.products, p) ELSE 0

\* C25: an updateTransaction that is applied to a transaction moves the stock
\* by the difference it makes to the quantities sold: every product's
\* stockQuantity changes by (quantity sold before) - (quantity sold after).
C25_UpdateCompensatesStock ==
  [][(/\ last'.op = "updateTransaction"
      /\ last'.status = StatusOk
      /\ last'.id \in DOMAIN transactions) =>
       \A p \in DOMAIN products :
          /\ p \in DOMAIN products'
          /\ products[p].businessId = transactions[last'.id].businessId =>
               products'[p].stockQuantity - products[p].stockQuantity
                 = SoldBy(transactions[last'.id], p) - SoldBy(transactions'[last'.id], p)]_vars

\* C28: an income createTransaction that is rejected because its amount does
\* not match its line items leaves the stockQuantity of every product as it was
\* before the request.
C28_RejectedCreateKeepsStock ==
  [][(/\ last'.op = "createTransaction"
      /\ last'.type = INCOME
      /\ last'.message = "Amount must match sum of products") =>
       products' = products]_vars

\* line item k of a createTransaction request of business b fails on the stock
\* the request found: its product is not one of the business, or the request
\* is a sale and the line items before it leave less than it asks for
ItemFails(prods, b, type, items, k) ==
  LET id == items[k].productId IN
  \/ ~Found(prods, id, b)
  \/ /\ type = INCOME
     /\ prods[id].stockQuantity - Taken(items, k, id) < items[k].quantity

\* the first line item that fails, 0 when none does
FirstFailing(prods, b, type, items) ==
  LET failing == {k \in 1..Len(items) : ItemFails(prods, b, type, items, k)}
  IN IF failing = {} THEN 0 ELSE CHOOSE k \in failing : \A j \in failing : k <= j

\* ------------------------------------------------------------ LoopSpec
\* products and the transactions created over them, one request at a time:
\* sales and expenses whose amount is the total of their line items
LoopBodies ==
  {body \in CreateTransactionBodies :
     /\ body.type \in {INCOME, EXPENSE}
     /\ body.amount = SumQuantityTimesPrice(body.products)}

LoopNext ==
  \/ \E b \in Sellers, body \in DefaultProductBodies : CreateProduct(b, body)
  \/ \E b \in Businesses, body \in LoopBodies : CreateTransaction(b, body)

LoopSpec == Init /\ [][LoopNext]_vars

\* C26: createTransaction is not atomic.  When line item k is the first to
\* fail (its product is missing, or the stock is insufficient), the request is
\* answered 404 or 400, no transaction is stored, and the stock of every
\* product stays lowered by what the line items 1..k-1 of a sale took of it.
C26_FailedCreateKeepsEarlierDecrements ==
  [][\A b \in Businesses, body \in LoopBodies :
       LET k == FirstFailing(products, b, body.type, body.products) IN
       (k > 0 /\ CreateTransaction(b, body)) =>
          /\ last'.status \in {StatusNotFound, StatusBadRequest}
          /\ transactions' = transactions
          /\ DOMAIN products' = DOMAIN products
          /\ \A p \in DOMAIN products :
               products'[p].stockQuantity =
                 products[p].stockQuantity
                   - (IF body.type = INCOME /\ products[p].businessId = b
                      THEN Taken(body.products, k, p) ELSE 0)]_vars

\* a sale stopped on its second line item for want of stock, after the first
\* one took its quantity of the same product
C26_Witness ==
  /\ last.op = "createTransaction"
  /\ last.type = INCOME
  /\ last.status = StatusBadRequest
  /\ last.message = "Insufficient stock"
  /\ last.earlier > 0
  /\ transactions = << >>

\* ------------------------------------------------------------ RaceSpec
\* sales of one unit or more over products that hold MaxQuantity, the requests
\* interleaved at their awaits, up to MaxSales of them stored
RaceProductBodies == {[stockQuantity |-> MaxQuantity]}

RaceNext ==
  \/ \E b \in Sellers, body \in RaceProductBodies : CreateProduct(b, body)
  \/ \E s \in Slots, b \in Sellers, body \in ConcTransactionBodies :
       ReceiveCreateTransaction(s, b, body)
  \/ \E s \in Slots : FindProduct(s)
  \/ \E s \in Slots : SaveProduct(s)
  \/ \E s \in Slots : CreateRecordUpTo(s, MaxSales)

RaceSpec == Init /\ [][RaceNext]_vars

\* C27: concurrent sales are not serialized.  A createTransaction request
\* computes the stock to write from the stock it read (stock read - quantity),
\* writes that value whatever the collection holds by then, and no step of a
\* request waits for or changes the request of another connection.
C27_SalesNotSerialized ==
  [][\A s \in Slots :
       LET r == reqs[s] IN
       /\ (r.pc = "find" /\ reqs'[s].pc = "save") =>
             reqs'[s].v = products[reqs'[s].id].stockQuantity - r.items[r.k].quantity
       /\ (r.pc = "save" /\ reqs'[s] # r) =>
             products'[r.id].stockQuantity = r.v
       /\ reqs'[s] # r => \A t \in Slots \ {s} : reqs'[t] = reqs[t]]_vars

\* both sales of a product that held MaxQuantity are stored, no request is in
\* flight, and the stock is that of one decrement: more is sold than there was
C27_Witness ==
  /\ \A s \in Slots : reqs[s].pc = "idle"
  /\ Cardinality(DOMAIN transactions) = 2
  /\ \E p \in DOMAIN products :
       /\ \A t \in DOMAIN transactions : TotalFor(transactions[t].products, p) > 0
       /\ Sold(transactions, products, p) > MaxQuantity
       /\ \E t \in DOMAIN transactions :
            products[p].stockQuantity
              = MaxQuantity - TotalFor(transactions[t].products, p)

\* ------------------------------------------------------------ DelSpec
\* a sale is created, and deleteTransaction requests for it arrive on several
\* connections, interleaved at their awaits with each other and with nothing
\* else: a createTransaction is sent when no deleteTransaction is in flight
\* deleteTransaction, lines 205-217: findOneAndDelete, and the 404 of the
\* request that finds no transaction
ReceiveDelete(s, b, id) ==
  IF Found(transactions, id, b)
  THEN ReceiveDeleteTransaction(s, b, id)
  ELSE /\ reqs[s].pc = "idle"
       /\ last' = TransactionResponse("deleteTransaction", b, id, StatusNotFound,
                                      "Transaction not found", "", <<>>)
       /\ UNCHANGED <<products, transactions, nextProductId, nextTransactionId, reqs,
                      users, businesses>>

\* the clients of DelSpec: a sale is sent when no request is in flight, a
\* deleteTransaction when the requests in flight are for the same id
SendSale(b, body) ==
  /\ \A s \in Slots : reqs[s].pc = "idle"
  /\ CreateTransaction(b, body)

SendDelete(s, b, id) ==
  /\ \A t \in Slots : reqs[t].pc # "idle" => reqs[t].body.id = id
  /\ ReceiveDelete(s, b, id)

DelNext ==
  \/ \E b \in Sellers, body \in DefaultProductBodies : CreateProduct(b, body)
  \/ \E b \in Sellers, body \in ConcTransactionBodies : SendSale(b, body)
  \/ \E s \in Slots, b \in Businesses, id \in TransactionIds : SendDelete(s, b, id)
  \/ \E s \in Slots : FindProduct(s)
  \/ \E s \in Slots : SaveProduct(s)

DelSpec == Init /\ [][DelNext]_vars

\* the connections that are restoring the stock of transaction id
Restoring(rs, id) ==
  {s \in Slots : rs[s].op = "deleteTransaction" /\ rs[s].pc # "idle" /\ rs[s].body.id = id}

RECURSIVE ToRestoreIn(_, _, _)
\* the quantity of product p that the deleteTransaction requests in flight on
\* the connections ss have still to give back
ToRestoreIn(rs, ss, p) ==
  IF ss = {} THEN 0
  ELSE LET s == CHOOSE x \in ss : TRUE
       IN (IF rs[s].op = "deleteTransaction" /\ rs[s].pc \in {"find", "save"}
           THEN TotalFor(rs[s].items, p) - Taken(rs[s].items, rs[s].k, p) ELSE 0)
          + ToRestoreIn(rs, ss \ {s}, p)

\* what there is of product p: in stock, sold, and still to be given back
Accounted(prods, txns, rs, p) ==
  prods[p].stockQuantity + Sold(txns, prods, p) + ToRestoreIn(rs, Slots, p)

\* a step of a deleteTransaction request that found its transaction
DeleteStep ==
  \/ reqs' # reqs
  \/ /\ nextTransactionId' = nextTransactionId
     /\ DOMAIN transactions' # DOMAIN transactions

\* C29: the stock of a sale is restored at most once.  Of the deleteTransaction
\* requests for one id, interleaved or not, one takes the transaction and
\* restores its line items; one that does not find it is answered 404 and
\* changes nothing; never are two connections restoring the same id, nor one
\* restoring an id that is still stored; and over the steps of the requests
\* stock + sold + still to be restored stays the same for every product, so
\* each recorded quantity comes back exactly once.
C29_StockRestoredOnce ==
  [][/\ \A id \in TransactionIds :
          /\ Cardinality(Restoring(reqs', id)) <= 1
          /\ Restoring(reqs', id) # {} => id \notin DOMAIN transactions'
     /\ \A s \in Slots, b \in Businesses, id \in TransactionIds :
          (~Found(transactions, id, b) /\ SendDelete(s, b, id)) =>
             /\ last'.status = StatusNotFound
             /\ products' = products /\ transactions' = transactions /\ reqs' = reqs
     /\ DeleteStep =>
          /\ DOMAIN products' = DOMAIN products
          /\ \A p \in DOMAIN products :
               Accounted(products', transactions', reqs', p)
                 = Accounted(products, transactions, reqs, p)]_vars

\* a second request for the id is answered 404 while the first one, which
\* took the transaction, is about to give a line item back
C29_Witness ==
  /\ last.op = "deleteTransaction"
  /\ last.status = StatusNotFound
  /\ \E s \in Slots :
       /\ reqs[s].op = "deleteTransaction"
       /\ reqs[s].pc = "save"
       /\ reqs[s].body.id = last.id
       /\ reqs[s].businessId = last.businessId

\* ------------------------------------------------------------ OwnerSpec
\* requests whose body carries a businessId, that of the caller or another
OwnerProductBodies ==
  {[stockQuantity |-> 1]}
    \cup {[stockQuantity |-> 1, businessId |-> o] : o \in Businesses}

OwnerProductUpdates ==
  {[stockQuantity |-> MaxStock]}
    \cup {[businessId |-> o] : o \in Businesses}

OwnerTransactionBodies ==
  {[type |-> t, amount |-> 0, products |-> << >>] : t \in {INCOME, EXPENSE}}
    \cup {[type |-> EXPENSE, amount |-> 0, products |-> << >>, businessId |-> o] :
            o \in Businesses}

OwnerTransactionUpdates ==
  {[type |-> WITHDRAWAL]} \cup {[businessId |-> o] : o \in Businesses}

OwnerNext ==
  \/ \E b \in Businesses, body \in OwnerProductBodies : CreateProduct(b, body)
  \/ \E b \in Businesses, id \in ProductIds, body \in OwnerProductUpdates :
       UpdateProduct(b, id, body)
  \/ \E b \in Businesses, body \in OwnerTransactionBodies : CreateTransaction(b, body)
  \/ \E b \in Businesses, id \in TransactionIds, body \in OwnerTransactionUpdates :
       UpdateTransaction(b, id, body)

OwnerSpec == Init /\ [][OwnerNext]_vars

\* C30: the owning business never changes.  No createProduct, updateProduct,
\* createTransaction or updateTransaction request, whatever its body, changes
\* the businessId of a stored product or transaction, and a created one has
\* the businessId of its caller.
C30_OwnerNeverChanges ==
  [][/\ \A id \in DOMAIN products \cap DOMAIN products' :
          products'[id].businessId = products[id].businessId
     /\ \A id \in DOMAIN transactions \cap DOMAIN transactions' :
          transactions'[id].businessId = transactions[id].businessId
     /\ \A id \in DOMAIN products' \ DOMAIN products :
          products'[id].businessId = last'.businessId
     /\ \A id \in DOMAIN transactions' \ DOMAIN transactions :
          transactions'[id].businessId = last'.businessId]_vars

====
